---- MODULE Spec2Model ----
(***************************************************************************)
(* Model of GMSH-Airfoil-2D: the point-cloud normalisation done by main()  *)
(* (gmshairfoil2d.py), the AirfoilSpline constructor with its blunt        *)
(* trailing-edge repair and gen_skin (geometry_def.py), together with the  *)
(* sequence of requests they send to the gmsh kernel.                      *)
(*                                                                         *)
(* Coordinates are exact rationals <<n, d>> (d > 0, lowest terms); the     *)
(* Python code computes the same expressions in IEEE doubles.  Python list *)
(* indices are kept 0-based, negative indices wrap as in Python.           *)
(***************************************************************************)
EXTENDS Integers, Sequences, FiniteSets, TLC

\* ------------------------------------------------------------------------
\* Exact rational arithmetic standing for Python float arithmetic
\* ------------------------------------------------------------------------
Abs(n) == IF n < 0 THEN -n ELSE n

RECURSIVE GCD(_, _)
GCD(a, b) == IF b = 0 THEN a ELSE GCD(b, a % b)

\* The rational n/d (d # 0) in lowest terms with a positive denominator.
Rat(n, d) ==
    LET g == GCD(Abs(n), Abs(d))
        s == IF d < 0 THEN -1 ELSE 1
    IN  <<s * (n \div g), s * (d \div g)>>

R0 == <<0, 1>>

RNeg(p) == <<-p[1], p[2]>>

\* p + q over the least common denominator.
RAdd(p, q) ==
    LET g == GCD(p[2], q[2])
        m == q[2] \div g
        k == p[2] \div g
    IN  Rat(p[1] * m + q[1] * k, p[2] * m)

RSub(p, q) == RAdd(p, RNeg(q))

\* p * q, cancelling across the fraction bars before multiplying.
RMul(p, q) ==
    LET g1 == GCD(Abs(p[1]), q[2])
        g2 == GCD(Abs(q[1]), p[2])
    IN  <<(p[1] \div g1) * (q[1] \div g2), (p[2] \div g2) * (q[2] \div g1)>>

\* p / q for q # 0.
RDiv(p, q) ==
    IF q[1] < 0 THEN RMul(p, <<-q[2], -q[1]>>) ELSE RMul(p, <<q[2], q[1]>>)

\* p < q, compared by integer parts and then by the reciprocals of the
\* fractional parts (no cross product is formed).
RECURSIVE RLt(_, _)
RLt(p, q) ==
    LET fp == p[1] \div p[2]
        fq == q[1] \div q[2]
        rp == p[1] % p[2]
        rq == q[1] % q[2]
    IN  IF fp # fq THEN fp < fq
        ELSE IF rq = 0 THEN FALSE
        ELSE IF rp = 0 THEN TRUE
        ELSE RLt(<<q[2], rq>>, <<p[2], rp>>)

\* Faulty variant of RAbs: the sign is kept.
RKeepSign(p) == p

\* abs(p)
RAbs(p) == IF p[1] < 0 THEN RNeg(p) ELSE p

RLe(p, q) == ~RLt(q, p)
RGt(p, q) == RLt(q, p)

\* ------------------------------------------------------------------------
\* Floats: the code computes with binary floating point, the model with
\* the exact values.  A float result is the exact one up to its last
\* binary place, far less than the gap between two unequal values of the
\* sizes used here, so a decision differs from the exact one only where
\* the exact values tie, and not even there when the operands are binary
\* fractions, which floats hold and combine without rounding.  At the ties
\* of the bluntness test (x = te.x - 0.0001), of the parallel test of the
\* repair (b*c - a*d = 0), of its three windows (z + mu*c = te.x + 0.1,
\* te.x or te.x - 0.001), of the divisor of its fallback (a + c = 0), of
\* the comparisons of outofbounds and of the truncations of the CType
\* counts the model allows every outcome.  A point the repair inserted
\* holds computed coordinates, which are the exact ones up to rounding only:
\* in a construction from points that contain one, and in outofbounds on
\* them, no tie is taken as exact.
\* ------------------------------------------------------------------------
\* A power of two.
RECURSIVE IsPowerOfTwo(_)
IsPowerOfTwo(n) == n = 1 \/ (n > 1 /\ n % 2 = 0 /\ IsPowerOfTwo(n \div 2))

\* The float that holds q is q itself: q is a binary fraction.
IsBinary(q) == IsPowerOfTwo(q[2])

\* v > w as the code decides it, v and w being the exact values of its two
\* sides and exact telling that they are formed without rounding.
FloatGt(v, w, exact) ==
    IF v = w /\ ~exact THEN {TRUE, FALSE} ELSE {RGt(v, w)}

\* ------------------------------------------------------------------------
\* Python list operations (0-based indices)
\* ------------------------------------------------------------------------
\* s[i] is defined: -len(s) <= i < len(s).
InRange(s, i) == (i >= 0 /\ i < Len(s)) \/ (i < 0 /\ -i <= Len(s))

\* s[i] with Python's negative-index wrap-around.
At(s, i) == IF i >= 0 THEN s[i + 1] ELSE s[Len(s) + i + 1]

\* s[i:j] for 0 <= i, j <= len(s).
Slice(s, i, j) == SubSeq(s, i + 1, j)

\* list.reverse()
Reverse(s) == [i \in 1..Len(s) |-> s[Len(s) + 1 - i]]

\* Faulty variant of Insert: the element goes one position too far.
InsertAfter(s, i, e) ==
    Slice(s, 0, i + 1) \o <<e>> \o Slice(s, i + 1, Len(s))

\* list.insert(i, e) for 0 <= i <= len(s)
Insert(s, i, e) == Slice(s, 0, i) \o <<e>> \o Slice(s, i, Len(s))

\* ------------------------------------------------------------------------
\* Inputs
\* ------------------------------------------------------------------------
\* Longest point cloud handed to the program.
MaxLen == 4

\* Largest denominator of a coordinate whose square main() has to form.
MaxSquareDen == 1024

X0 == R0
X98 == Rat(49, 50)
X511 == Rat(511, 512)
\* 1 - 2^-14 and 1 - 2^-15: below x = 1 by less than the 0.0001 bluntness
\* tolerance, and exact in binary floating point.
XE1 == Rat(16383, 16384)
XE2 == Rat(32767, 32768)
X1 == <<1, 1>>

\* Coordinates (x, y, z) of a coarsely sampled profile: the blunt profile of
\* the repair example ((0.98, 0.05), (1, 0.02), (1, -0.02), (0.98, -0.05)),
\* a leading edge at the origin and a lower point above the chord.  These
\* decimals are not exact in binary floating point; where b*c - a*d of two
\* of their rays is 0, it is so by products that are 0 or that have the
\* same factors, and is computed as 0 (DetIsExact).
CoarsePoints ==
    { <<X0, R0, R0>>,
      <<X98, Rat(1, 20), R0>>,
      <<X1, Rat(1, 50), R0>>,
      <<X1, Rat(-1, 50), R0>>,
      <<X98, Rat(-1, 20), R0>>,
      <<X98, Rat(1, 200), R0>> }

\* Coordinates of a finely sampled trailing region: points closer to x = 1
\* than the bluntness tolerance, two points at x = 1 and one further away.
FinePoints ==
    { <<X511, Rat(1, 16), R0>>,
      <<XE1, Rat(1, 32), R0>>,
      <<X1, Rat(-1, 32), R0>>,
      <<X1, Rat(1, 32), R0>>,
      <<XE2, Rat(1, 4), R0>>,
      <<XE2, Rat(-31, 128), R0>> }

\* Coordinates of a sharp, symmetric trailing region: two points at x = 1
\* whose rays, coming steeply from x = 511/512, meet less than 0.0001 behind
\* them, and a point from which the lower ray is parallel to the upper one.
\* All are exact in binary floating point.
SharpPoints ==
    { <<X511, <<1, 1>>, R0>>,
      <<X1, Rat(1, 32), R0>>,
      <<X1, Rat(-1, 32), R0>>,
      <<X511, <<-1, 1>>, R0>>,
      <<X511, Rat(15, 16), R0>> }

\* Coordinates of a blunt trailing region whose rays meet less than 0.0001
\* past it, at a point whose coordinates (10241/10240, 9/128) are no binary
\* fractions: mu is 1/5 there.
SkewPoints ==
    { <<X511, Rat(-3, 4), R0>>,
      <<X1, Rat(1, 32), R0>>,
      <<X1, Rat(1, 16), R0>>,
      <<X511, Rat(-3, 32), R0>> }

\* Every sequence of at most MaxLen elements of S.
SeqsUpTo(S) == UNION { [1..n -> S] : n \in 0..MaxLen }

\* The point clouds the provider may deliver.
Clouds ==
    SeqsUpTo(CoarsePoints) \cup SeqsUpTo(FinePoints) \cup SeqsUpTo(SharpPoints)

\* The point clouds a caller builds its airfoils from, each airfoil after
\* the first from the points of the one before.  The finely sampled clouds
\* are left to main: the abscissas their repairs produce have denominators
\* that, put into te.x - 0.0001 once more, exceed the integers this
\* module's fractions are made of.
ApiClouds ==
    SeqsUpTo(CoarsePoints) \cup SeqsUpTo(SharpPoints) \cup SeqsUpTo(SkewPoints)

\* args.airfoil_mesh_size, handed unchanged to every airfoil Point.
MeshSize == Rat(1, 100)

\* ------------------------------------------------------------------------
\* main(): normalisation of the point cloud
\* ------------------------------------------------------------------------
\* le = min(p[0] for p in cloud_points), for a non-empty cloud.
MinX(cloud) ==
    LET xs == { cloud[i][1] : i \in 1..Len(cloud) }
    IN  CHOOSE m \in xs : \A v \in xs : RLe(m, v)

\* Faulty variant of Debut: the first point of minimum x decides.
DebutFirstMin(cloud) ==
    (CHOOSE i \in 1..Len(cloud) :
        /\ cloud[i][1] = MinX(cloud)
        /\ \A j \in 1..(i - 1) : cloud[j][1] # MinX(cloud)) - 1

\* debut after the loop "for p in cloud_points: if p[0] == le: debut =
\* cloud_points.index(p)": the loop has no break, so the last point of
\* minimum x decides, and index() returns the first position holding a point
\* equal to it.
Debut(cloud) ==
    LET lemin == MinX(cloud)
        last == CHOOSE i \in 1..Len(cloud) :
                    /\ cloud[i][1] = lemin
                    /\ \A j \in (i + 1)..Len(cloud) : cloud[j][1] # lemin
        first == CHOOSE i \in 1..Len(cloud) :
                    /\ cloud[i] = cloud[last]
                    /\ \A j \in 1..(i - 1) : cloud[j] # cloud[last]
    IN  first - 1

\* Faulty variant of RotateToDebut: the points before debut are dropped.
DropToDebut(cloud) == Slice(cloud, Debut(cloud), Len(cloud))

\* cloud_points[debut:] + cloud_points[:debut]
RotateToDebut(cloud) ==
    LET debut == Debut(cloud)
    IN  Slice(cloud, debut, Len(cloud)) \o Slice(cloud, 0, debut)

\* The clockwise test: cloud_points[1][1] < cloud_points[0][1].
NeedsReverse(cloud) == RLt(At(cloud, 1)[2], At(cloud, 0)[2])

\* Faulty variant of ReverseKeepFirst: the reversed list is left as it is.
ReverseOnly(cloud) == Reverse(cloud)

\* cloud_points.reverse(); cloud_points = cloud_points[-1:] + cloud_points[:-1]
ReverseKeepFirst(cloud) ==
    LET r == Reverse(cloud)
    IN  Slice(r, Len(r) - 1, Len(r)) \o Slice(r, 0, Len(r) - 1)

\* The normalisation block of main(): outcome and value of cloud_points.
NormalizeCloud(cloud) ==
    IF Len(cloud) = 0
    THEN [outcome |-> "ValueError", cloud |-> cloud]
    ELSE LET rotated == RotateToDebut(cloud)
         IN  IF ~InRange(rotated, 1)
             THEN [outcome |-> "IndexError", cloud |-> rotated]
             ELSE IF NeedsReverse(rotated)
             THEN [outcome |-> "ok", cloud |-> ReverseKeepFirst(rotated)]
             ELSE [outcome |-> "ok", cloud |-> rotated]

\* ------------------------------------------------------------------------
\* geometry_def.py: Point and AirfoilSpline
\* ------------------------------------------------------------------------
\* Thresholds written as literals in AirfoilSpline.__init__.
TeTolerance == Rat(1, 10000)
TeMaxAdvance == Rat(1, 10)
TeBackTolerance == Rat(1, 1000)
TeFallbackAdvance == Rat(1, 20)
Two == <<2, 1>>

\* The value given to mu when the two rays are parallel.
MuParallel == 10000000

\* A Point object: coordinates, mesh size and the tag addPoint returned.
Point(x, y, z, mesh_size, tag) ==
    [x |-> x, y |-> y, z |-> z, mesh_size |-> mesh_size, tag |-> tag]

\* Value of an attribute that holds no Point.
NoPoint == Point(R0, R0, R0, R0, 0)

\* self.points = [Point(p[0], p[1], p[2], mesh_size) for p in point_cloud];
\* the kernel numbers the points from first_tag on.
MakePoints(point_cloud, mesh_size, first_tag) ==
    [i \in 1..Len(point_cloud) |->
        Point(point_cloud[i][1], point_cloud[i][2], point_cloud[i][3],
              mesh_size, first_tag + i - 1)]

\* 0-based index of the first element of smallest x: min(points, key=x)
\* followed by points.index().
IndexOfMinX(points) ==
    (CHOOSE i \in 1..Len(points) :
        /\ \A j \in 1..Len(points) : RLe(points[i].x, points[j].x)
        /\ \A j \in 1..(i - 1) : RLt(points[i].x, points[j].x)) - 1

\* 0-based index of the first element of largest x: max(points, key=x)
\* followed by points.index().
IndexOfMaxX(points) ==
    (CHOOSE i \in 1..Len(points) :
        /\ \A j \in 1..Len(points) : RLe(points[j].x, points[i].x)
        /\ \A j \in 1..(i - 1) : RLt(points[j].x, points[i].x)) - 1

\* points[i].x > te.x - 0.0001: the values the test can take.  0.0001 is
\* no binary fraction and te.x - 0.0001 is rounded, so an x that lies
\* exactly 0.0001 behind te.x is found on either side.
NearTe(points, i, te) ==
    FloatGt(At(points, i).x, RSub(te.x, TeTolerance), FALSE)

\* The bluntness test: which of "if", "elif" or neither is taken, or the
\* IndexError of points[te_indx + 1] when the trailing edge is the last
\* point; every outcome the two comparisons allow.
Bluntness(points, te_indx) ==
    LET te == At(points, te_indx)
        Elif ==
            IF ~InRange(points, te_indx + 1)
            THEN {[outcome |-> "IndexError", vertical |-> FALSE,
                   te_up_indx |-> -1, te_down_indx |-> -1]}
            ELSE { IF near
                   THEN [outcome |-> "ok", vertical |-> TRUE,
                         te_up_indx |-> te_indx, te_down_indx |-> te_indx + 1]
                   ELSE [outcome |-> "ok", vertical |-> FALSE,
                         te_up_indx |-> -1, te_down_indx |-> -1] :
                   near \in NearTe(points, te_indx + 1, te) }
    IN  UNION { IF near
                THEN {[outcome |-> "ok", vertical |-> TRUE,
                       te_up_indx |-> te_indx - 1, te_down_indx |-> te_indx]}
                ELSE Elif :
                near \in NearTe(points, te_indx - 1, te) }

\* x, y, z, w and the ray vectors (a, b), (c, d) of the repair.
Rays(points, te_up_indx, te_down_indx) ==
    LET x == At(points, te_up_indx).x
        y == At(points, te_up_indx).y
        z == At(points, te_down_indx).x
        w == At(points, te_down_indx).y
    IN  [x |-> x, y |-> y, z |-> z, w |-> w,
         a |-> RSub(x, At(points, te_up_indx - 1).x),
         b |-> RSub(y, At(points, te_up_indx - 1).y),
         c |-> RSub(z, At(points, te_down_indx + 1).x),
         d |-> RSub(w, At(points, te_down_indx + 1).y)]

\* b*c - a*d
Det(r) == RSub(RMul(r.b, r.c), RMul(r.a, r.d))

\* A b*c - a*d that is 0 is computed as 0: both products are 0, or the
\* coordinates the rays come from are binary fractions, or the two products
\* have the same factors, each formed by the same subtraction.
DetIsExact(r) ==
    \/ RMul(r.b, r.c) = R0 /\ RMul(r.a, r.d) = R0
    \/ \A v \in {r.x, r.y, r.z, r.w, r.a, r.b, r.c, r.d} : IsBinary(v)
    \/ r.y = r.w /\ r.b = r.d /\ r.x = r.z /\ r.a = r.c
    \/ r.y = r.x /\ r.b = r.a /\ r.z = r.w /\ r.c = r.d

\* Stand-ins for the values of a quotient whose divisor is the rounding
\* residue of a b*c - a*d that is 0: a magnitude beyond every window of
\* the repair, of either sign, when the dividend is not 0, and any value
\* at all when the dividend is 0 too but its two products are not.
Unbounded == {<<1, 0>>, <<-1, 0>>}
Undetermined == <<0, 0>>

\* mu: (b*(x-z) + a*(w-y)) / (b*c - a*d), or 10000000 for parallel rays:
\* the values mu can take.  Rays that are parallel pass the test
\* b*c - a*d != 0 when the two products are rounded apart.  written tells
\* that the coordinates are numbers as the cloud's source wrote them, none
\* of them computed by a repair: only then can a 0 be told to be exact.
MuOf(r, written) ==
    LET dividend == RAdd(RMul(r.b, RSub(r.x, r.z)), RMul(r.a, RSub(r.w, r.y)))
    IN  IF Det(r) # R0 THEN {RDiv(dividend, Det(r))}
        ELSE IF written /\ DetIsExact(r) THEN {<<MuParallel, 1>>}
        ELSE {<<MuParallel, 1>>}
             \cup (IF dividend # R0 THEN Unbounded
                   ELSE IF written /\ RMul(r.b, RSub(r.x, r.z)) = R0 THEN {R0}
                   ELSE {Undetermined})

\* The values of mu for rays between points of a cloud as written.
Mu(r) == MuOf(r, TRUE)

\* z + mu*c for one value of mu.  The rays of an unbounded mu have c # 0.
Abscissa(r, mu) ==
    IF mu = Undetermined THEN Undetermined
    ELSE IF mu \in Unbounded
    THEN (IF (mu[1] > 0) = RLt(R0, r.c) THEN <<1, 0>> ELSE <<-1, 0>>)
    ELSE RAdd(r.z, RMul(mu, r.c))

\* z + mu*c, the abscissa the three-way test looks at: its values.
MeetX(r) == { Abscissa(r, mu) : mu \in Mu(r) }

\* A z + mu*c that equals te.x is computed as te.x, for coordinates as
\* written: mu*c is computed as 0, by c = 0 or by a dividend of mu whose
\* two products are 0, and z is then the abscissa of the trailing edge; or
\* the coordinates and mu are binary fractions.
MeetIsExact(r, mu) ==
    \/ r.c = R0
    \/ mu = R0 /\ RMul(r.b, RSub(r.x, r.z)) = R0
    \/ /\ IsBinary(mu)
       /\ \A v \in {r.x, r.y, r.z, r.w, r.a, r.b, r.c, r.d} : IsBinary(v)

\* The if / elif / else on the value xm of z + mu*c: the branches it can
\* take.  te.x + 0.1 and te.x - 0.001 are rounded, so an xm that equals one
\* of them exactly is found on either side; an xm that equals te.x is so
\* unless exact tells that it is computed as te.x.  The code compares xm
\* with te.x in the if and in the elif, with the same result.
RepairBranch(xm, te, exact) ==
    IF xm = Undetermined THEN {"intersection", "nothing", "fallback"}
    ELSE IF xm \in Unbounded THEN {"fallback"}
    ELSE { IF ~t[1] /\ t[2] THEN "intersection"
           ELSE IF t[3] /\ ~t[2] THEN "nothing"
           ELSE "fallback" :
           t \in FloatGt(xm, RAdd(te.x, TeMaxAdvance), FALSE)
                 \X FloatGt(xm, te.x, exact)
                 \X FloatGt(xm, RSub(te.x, TeBackTolerance), FALSE) }

\* e = (a + c)/2, the divisor of the fallback branch.
FallbackE(r) == RDiv(RAdd(r.a, r.c), Two)

\* An a + c that is 0 is computed as 0, for coordinates as written: both
\* are 0, or they come from binary fractions, or the two subtractions have
\* the same operands in opposite order.
FallbackIsExact(r) ==
    \/ r.a = R0 /\ r.c = R0
    \/ \A v \in {r.x, r.z, r.a, r.c} : IsBinary(v)
    \/ RSub(r.x, r.a) = r.z /\ RSub(r.z, r.c) = r.x

\* Coordinates of the point built in the else branch (e # 0).
FallbackPoint(r, te) ==
    LET px == RDiv(RAdd(r.x, r.z), Two)
        py == RDiv(RAdd(r.y, r.w), Two)
        f == RDiv(RAdd(r.b, r.d), Two)
        lambd == RDiv(RSub(RAdd(te.x, TeFallbackAdvance), px), FallbackE(r))
    IN  <<RAdd(te.x, TeFallbackAdvance), RAdd(py, RMul(lambd, f))>>

\* Coordinates of the points the else branch can build when a + c is 0 and
\* e is the rounding residue of it: lambd is beyond every bound, and so is
\* py + lambd*f unless b + d is 0 too, when it can be any value.
FallbackResiduePoints(r, te) ==
    { <<RAdd(te.x, TeFallbackAdvance), y>> :
        y \in (IF RAdd(r.b, r.d) # R0 THEN Unbounded ELSE {Undetermined}) }

\* Coordinates of the point built in the if branch for one value of mu.
IntersectionPoint(r, mu) ==
    <<Abscissa(r, mu),
      IF mu = Undetermined THEN Undetermined ELSE RAdd(r.w, RMul(mu, r.d))>>

\* What the constructor leaves behind when it stops before the repair.
Unrepaired(outcome, pts, le_indx, te_indx, bl, branch) ==
    [outcome |-> outcome, points |-> pts,
     le |-> IF le_indx >= 0 THEN At(pts, le_indx) ELSE NoPoint,
     te |-> IF te_indx >= 0 THEN At(pts, te_indx) ELSE NoPoint,
     le_indx |-> le_indx, te_indx |-> te_indx,
     vertical |-> bl.vertical, te_up_indx |-> bl.te_up_indx,
     te_down_indx |-> bl.te_down_indx, branch |-> branch, created |-> 0]

\* What the constructor leaves behind after inserting the point of
\* coordinates xy: points.insert(te_down_indx, new); te = new; te_indx =
\* te_down_indx.
Repaired(pts, le_indx, bl, branch, xy, mesh_size, tag) ==
    LET new == Point(xy[1], xy[2], R0, mesh_size, tag)
    IN  [outcome |-> "ok", points |-> Insert(pts, bl.te_down_indx, new),
         le |-> At(pts, le_indx), te |-> new,
         le_indx |-> le_indx, te_indx |-> bl.te_down_indx,
         vertical |-> TRUE, te_up_indx |-> bl.te_up_indx,
         te_down_indx |-> bl.te_down_indx, branch |-> branch, created |-> 1]

NotBlunt == [vertical |-> FALSE, te_up_indx |-> -1, te_down_indx |-> -1]

\* AirfoilSpline.__init__(point_cloud, mesh_size, name): the attributes and
\* locals at the point where the constructor returns, exits or raises, for
\* every outcome its comparisons allow.  written tells that point_cloud
\* holds numbers as its source wrote them, none of them computed by a
\* repair; where it does not, any of the points whose x is the largest may
\* be the one max() finds.
\* "created" counts the Points made beyond those of the cloud.  The name
\* argument is stored and takes no part in any decision.
AirfoilSplineInitFrom(point_cloud, mesh_size, first_tag, written) ==
    LET pts == MakePoints(point_cloud, mesh_size, first_tag)
    IN  IF Len(pts) = 0
        THEN {Unrepaired("ValueError", pts, -1, -1, NotBlunt, "none")}
        ELSE
        LET le_indx == IndexOfMinX(pts)
            tag == first_tag + Len(pts)
            te_indices ==
                IF written THEN {IndexOfMaxX(pts)}
                ELSE { i - 1 : i \in { j \in 1..Len(pts) :
                           \A k \in 1..Len(pts) : RLe(pts[k].x, pts[j].x) } }
            Fallback(te_indx, bl, r) ==
                IF FallbackE(r) # R0
                THEN {Repaired(pts, le_indx, bl, "fallback",
                               FallbackPoint(r, At(pts, te_indx)),
                               mesh_size, tag)}
                ELSE {Unrepaired("ZeroDivisionError", pts, le_indx, te_indx,
                                 bl, "fallback")}
                     \cup (IF written /\ FallbackIsExact(r) THEN {}
                           ELSE { Repaired(pts, le_indx, bl, "fallback", xy,
                                           mesh_size, tag) :
                                  xy \in FallbackResiduePoints(
                                             r, At(pts, te_indx)) })
            Repair(te_indx, bl, r, mu, branch) ==
                IF branch = "intersection"
                THEN {Repaired(pts, le_indx, bl, branch,
                               IntersectionPoint(r, mu), mesh_size, tag)}
                ELSE IF branch = "nothing"
                THEN {Unrepaired("ok", pts, le_indx, te_indx, bl, branch)}
                ELSE Fallback(te_indx, bl, r)
            After(te_indx, bl) ==
                IF bl.outcome # "ok"
                THEN {Unrepaired(bl.outcome, pts, le_indx, te_indx, bl,
                                 "none")}
                ELSE IF ~bl.vertical
                THEN {Unrepaired("ok", pts, le_indx, te_indx, bl, "none")}
                ELSE IF ~InRange(pts, bl.te_up_indx - 1)
                        \/ ~InRange(pts, bl.te_down_indx + 1)
                THEN {Unrepaired("IndexError", pts, le_indx, te_indx, bl,
                                 "none")}
                ELSE
                LET r == Rays(pts, bl.te_up_indx, bl.te_down_indx)
                IN  UNION { UNION { Repair(te_indx, bl, r, mu, branch) :
                                      branch \in RepairBranch(
                                          Abscissa(r, mu), At(pts, te_indx),
                                          written /\ MeetIsExact(r, mu)) } :
                            mu \in MuOf(r, written) }
        IN  UNION { IF le_indx # 0
                    THEN {Unrepaired("sys.exit", pts, le_indx, te_indx,
                                     NotBlunt, "none")}
                    ELSE UNION { After(te_indx, bl) :
                                 bl \in Bluntness(pts, te_indx) } :
                    te_indx \in te_indices }

\* The constructor applied to a cloud as its source wrote it.
AirfoilSplineInit(point_cloud, mesh_size, first_tag) ==
    AirfoilSplineInitFrom(point_cloud, mesh_size, first_tag, TRUE)

\* A Spline object: its point list and the tag addSpline returned.
Spline(point_list, tag) == [point_list |-> point_list, tag |-> tag]

NoSpline == Spline(<<>>, 0)

\* Faulty variant of UpperPoints: the slice stops before the trailing edge.
UpperPointsStopEarly(pts, le_i, te_i) == Slice(pts, le_i, te_i)

\* gen_skin: self.points[self.le_indx : self.te_indx + 1]
UpperPoints(pts, le_i, te_i) == Slice(pts, le_i, te_i + 1)

\* Faulty variant of LowerPoints: the slice does not wrap to the leading edge.
LowerPointsNoWrap(pts, le_i, te_i) == Slice(pts, te_i, Len(pts))

\* gen_skin: self.points[self.te_indx:] + self.points[:self.le_indx + 1]
LowerPoints(pts, le_i, te_i) ==
    Slice(pts, te_i, Len(pts)) \o Slice(pts, 0, le_i + 1)

\* n copies of the request req.
Requests(req, n) == [i \in 1..n |-> req]

\* ------------------------------------------------------------------------
\* geometry_def.py: outofbounds
\* ------------------------------------------------------------------------
Half == Rat(1, 2)

\* Value of the box argument when no box was asked for (None).
NoBox == [given |-> FALSE]

\* The box argument "LxW" after length, width = [float(v) for v in
\* box.split("x")].
Box(length, width) == [given |-> TRUE, length |-> length, width |-> width]

\* min and max of a non-empty set of numbers.
RMin(S) == CHOOSE m \in S : \A v \in S : RLe(m, v)
RMax(S) == CHOOSE m \in S : \A v \in S : RLe(v, m)

\* math.sqrt(m) + b > radius for m >= 0, decided without forming the root:
\* sqrt(m) > radius - b.  The two sides tie when m is the square of
\* radius - b >= 0.
SqrtPlusExceeds(m, b, radius, exact) ==
    LET t == RSub(radius, b)
    IN  IF ~RLt(t, R0) /\ RMul(t, t) = m /\ ~exact
        THEN {TRUE, FALSE}
        ELSE {RLt(t, R0) \/ RLt(RMul(t, t), m)}

\* The test of the box branch: the values its four comparisons, joined by
\* "or", can give.  Halving a float and taking its absolute value do not
\* round, so that abs(y) + 0 and width/2 are equal floats when they tie and
\* y is a number as written.  computed holds the positions of the points
\* whose coordinates the constructor's repair computed: no tie with one of
\* those is taken as exact.
BoxExceeded(points, box, blthick, computed) ==
    LET xs == { points[i].x : i \in 1..Len(points) }
        ys == { points[i].y : i \in 1..Len(points) }
        minx == RMin(xs)
        maxx == RMax(xs)
        miny == RMin(ys)
        maxy == RMax(ys)
        b == RAbs(blthick)
        hl == RDiv(box.length, Two)
        hw == RDiv(box.width, Two)
        xc == { points[i].x : i \in computed }
        yc == { points[i].y : i \in computed }
        Exact(v, side) == IsBinary(v) /\ IsBinary(blthick) /\ IsBinary(side)
    IN  { right \/ left \/ top \/ bottom :
            right \in FloatGt(RAdd(RAbs(RSub(maxx, Half)), b), hl,
                              maxx \notin xc /\ Exact(maxx, box.length)),
            left \in FloatGt(RAdd(RAbs(RSub(minx, Half)), b), hl,
                             minx \notin xc /\ Exact(minx, box.length)),
            top \in FloatGt(RAdd(RAbs(maxy), b), hw,
                            /\ maxy \notin yc
                            /\ (b = R0 \/ Exact(maxy, box.width))),
            bottom \in FloatGt(RAdd(RAbs(miny), b), hw,
                               /\ miny \notin yc
                               /\ (b = R0 \/ Exact(miny, box.width))) }

\* The test of the circle branch, maxr + abs(blthick) > radius: the values
\* it can give.  The largest square is formed without rounding when the
\* points it comes from have binary fractions for coordinates and none of
\* them is one of the computed; the root of 0 is 0 and adds nothing to
\* abs(blthick).
CircleExceeded(points, radius, blthick, computed) ==
    LET Sq(i) == RAdd(RMul(RSub(points[i].x, Half), RSub(points[i].x, Half)),
                      RMul(points[i].y, points[i].y))
        sq == { Sq(i) : i \in 1..Len(points) }
        exact == /\ \A i \in computed : Sq(i) # RMax(sq)
                 /\ \/ RMax(sq) = R0
                    \/ /\ IsBinary(radius)
                       /\ IsBinary(blthick)
                       /\ \A i \in 1..Len(points) :
                             Sq(i) = RMax(sq)
                             => IsBinary(points[i].x) /\ IsBinary(points[i].y)
    IN  SqrtPlusExceeds(RMax(sq), RAbs(blthick), radius, exact)

\* outofbounds(airfoil, box, radius, blthick), airfoil.points being points:
\* "sys.exit" when the test of the branch taken succeeds, "ok" when the
\* function returns, "ValueError" for min() or max() of no points; the set
\* of the outcomes the float comparisons allow.  computed holds the
\* positions in points, counted from 1, of the points the airfoil's
\* constructor inserted: their coordinates are the exact ones up to rounding
\* only, those of the other points are numbers as their source wrote them.
outofbounds(points, box, radius, blthick, computed) ==
    IF Len(points) = 0 THEN {"ValueError"}
    ELSE { IF exceeded THEN "sys.exit" ELSE "ok" :
             exceeded \in (IF box.given
                           THEN BoxExceeded(points, box, blthick, computed)
                           ELSE CircleExceeded(points, radius, blthick,
                                               computed)) }

\* ------------------------------------------------------------------------
\* gmshairfoil2d.py: the non-structured branch of main()
\* ------------------------------------------------------------------------
\* r**i for an integer i >= 0.
RECURSIVE RPow(_, _)
RPow(r, i) == IF i = 0 THEN <<1, 1>> ELSE RMul(r, RPow(r, i - 1))

\* d[i] of "d = [first_layer]; for i in range(1, N):
\* d.append(d[-1] - (-d[0]) * r**i)".
RECURSIVE LayerDistance(_, _, _)
LayerDistance(first_layer, r, i) ==
    IF i = 0 THEN first_layer
    ELSE RAdd(LayerDistance(first_layer, r, i - 1),
              RMul(first_layer, RPow(r, i)))

\* d[-1]: the total thickness of the boundary layer handed to outofbounds.
BlThickness(first_layer, r, nb_layers) ==
    LayerDistance(first_layer, r, IF nb_layers >= 1 THEN nb_layers - 1 ELSE 0)

\* Rationals enclosing np.pi: two convergents of its continued fraction,
\* less than 1e-9 apart.
PiLow == Rat(103993, 33102)
PiHigh == Rat(104348, 33215)

\* math.floor(k * p) for a rational k and a rational p between 3 and 4,
\* formed from k*p = 3*k + k*(p - 3) so that no product leaves 32 bits.
FloorOfProduct(k, p) ==
    LET threes == 3 * k[1]
        rest == (threes % k[2]) * p[2] + k[1] * (p[1] - 3 * p[2])
    IN  (threes \div k[2]) + (rest \div (k[2] * p[2]))

\* Circle.distribution = math.floor((np.pi * 2 * radius) / mesh_size), for
\* mesh_size # 0: the values the enclosure of pi allows, a single one
\* unless 2*radius/mesh_size times pi is within 1e-9 of an integer.
CircleDistribution(radius, mesh_size) ==
    LET k == RDiv(RMul(Two, radius), mesh_size)
        lo == FloorOfProduct(k, PiLow)
        hi == FloorOfProduct(k, PiHigh)
    IN  IF lo <= hi THEN lo..hi ELSE hi..lo

\* Requests of Rectangle.__init__: four corners, synchronize, four lines,
\* synchronize.
RectangleRequests ==
    <<"addPoint", "addPoint", "addPoint", "addPoint", "synchronize",
      "addLine", "addLine", "addLine", "addLine", "synchronize">>

\* Requests of Circle.__init__ for n = distribution >= 1: the centre, n
\* points, n arcs, synchronize, removeAllDuplicates.
CircleRequests(n) ==
    <<"addPoint">> \o [i \in 1..n |-> "addPoint"]
        \o [i \in 1..n |-> "addCircleArc"]
        \o <<"synchronize", "removeAllDuplicates">>

\* Circle.__init__(0.5, 0, 0, radius, mesh_size): how it ends and the
\* requests it has sent by then.  A mesh size of 0 and a distribution of 0
\* divide by zero before any request; a negative distribution leaves the
\* list of points empty after the centre was created, and points[0] raises
\* IndexError.
CircleInit(radius, mesh_size) ==
    IF mesh_size = R0
    THEN {[outcome |-> "ZeroDivisionError", requests |-> <<>>]}
    ELSE { IF n = 0
           THEN [outcome |-> "ZeroDivisionError", requests |-> <<>>]
           ELSE IF n < 0
           THEN [outcome |-> "IndexError", requests |-> <<"addPoint">>]
           ELSE [outcome |-> "ok", requests |-> CircleRequests(n)] :
           n \in CircleDistribution(radius, mesh_size) }

\* Requests of PlaneSurface([ext_domain, airfoil]): one curve loop for the
\* exterior domain, one for the airfoil's two splines, the surface.
PlaneSurfaceRequests == <<"addCurveLoop", "addCurveLoop", "addPlaneSurface">>

\* Requests of the boundary-layer field (main, lines 241-260).
BoundaryLayerRequests ==
    <<"field.add", "field.setNumbers", "field.setNumber", "field.setNumber",
      "field.setNumber", "field.setNumber", "field.setNumbers",
      "field.setAsBoundaryLayer">>

\* Requests of n define_bc markers: a physical group and its name each.
BcRequests(n) ==
    [i \in 1..(2 * n) |->
        IF i % 2 = 1 THEN "addPhysicalGroup" ELSE "setPhysicalName"]

\* Requests of main from the mesh options to the end (lines 270-284, without
\* --ui).
MeshRequests ==
    <<"option.setNumber", "option.setNumber", "option.setNumber",
      "mesh.generate", "mesh.optimize", "write", "finalize">>

\* Parameters of the non-structured runs: a box too short for any boundary
\* layer, a roomy box, the farfield radius 0.4, a roomy farfield without
\* boundary layer and the same with a negative exterior mesh size.
PlainArgs ==
    { [read |-> TRUE, box |-> Box(<<1, 1>>, Rat(1, 5)), farfield |-> <<10, 1>>,
       ext_mesh_size |-> Two, first_layer |-> Rat(1, 100), ratio |-> Two,
       nb_layers |-> 2, no_bl |-> FALSE],
      [read |-> TRUE, box |-> Box(Two, <<1, 1>>), farfield |-> <<10, 1>>,
       ext_mesh_size |-> Two, first_layer |-> Rat(1, 100), ratio |-> Two,
       nb_layers |-> 2, no_bl |-> FALSE],
      [read |-> TRUE, box |-> NoBox, farfield |-> Rat(2, 5),
       ext_mesh_size |-> Two, first_layer |-> Rat(1, 100), ratio |-> Two,
       nb_layers |-> 2, no_bl |-> FALSE],
      [read |-> TRUE, box |-> NoBox, farfield |-> <<1, 1>>,
       ext_mesh_size |-> Two, first_layer |-> Rat(1, 100), ratio |-> Two,
       nb_layers |-> 1, no_bl |-> TRUE],
      [read |-> TRUE, box |-> NoBox, farfield |-> <<1, 1>>,
       ext_mesh_size |-> <<-2, 1>>, first_layer |-> Rat(1, 100),
       ratio |-> Two, nb_layers |-> 1, no_bl |-> TRUE] }

\* ------------------------------------------------------------------------
\* geometry_def.py: CType, the structured C-shaped domain
\* ------------------------------------------------------------------------
\* The near-nose threshold of the split, 0.031.
NoseThreshold == Rat(31, 1000)

\* int(p): truncation toward zero.
Trunc(p) == IF p[1] >= 0 THEN p[1] \div p[2] ELSE -((-p[1]) \div p[2])

\* int(v) for the float v the code computes where the exact result is q.
\* v is q up to its last binary place, so int(v) is Trunc(q) unless q is a
\* whole number other than 0 that v may fall short of; v is q itself when
\* the operands are binary fractions (exact).
TruncValues(q, exact) ==
    IF exact \/ q[2] # 1 \/ q[1] = 0 THEN {Trunc(q)}
    ELSE IF q[1] > 0 THEN {Trunc(q) - 1, Trunc(q)}
    ELSE {Trunc(q), Trunc(q) + 1}

\* int(math.log(a) / math.log(b)) for a = q * b^k, q >= 1 and b > 1: the
\* largest n with b^n <= a, or that n and n - 1 when a is b^n, for the
\* quotient of the two rounded logarithms may fall short of n.
RECURSIVE FloorLog(_, _, _)
FloorLog(q, b, k) ==
    IF RLt(q, b) THEN {k}
    ELSE IF q = b THEN {k, k + 1}
    ELSE FloorLog(RDiv(q, b), b, k + 1)

\* 1/p for p # 0.
RInv(p) == RDiv(<<1, 1>>, p)

\* int(math.log(a) / math.log(r)) for a > 0, r > 0, r # 1: the quotient of
\* the logarithms has the magnitude log(a')/log(r') with a', r' the ones
\* of a, 1/a and r, 1/r that are at least 1, and is negative when exactly
\* one of the two logarithms is.  A logarithm divided by itself is 1.
IntLogQuotient(a, r) ==
    LET big_a == ~RLt(a, <<1, 1>>)
        big_r == ~RLt(r, <<1, 1>>)
        ms == FloorLog(IF big_a THEN a ELSE RInv(a),
                       IF big_r THEN r ELSE RInv(r), 0)
    IN  IF a = r THEN {1}
        ELSE IF big_a = big_r \/ a = <<1, 1>> THEN ms
        ELSE { -m : m \in ms }

\* The argument of the logarithm: 1+dy/2/height*(ratio-1), for height # 0.
LogArgument(dy, height, ratio) ==
    RAdd(<<1, 1>>, RMul(RDiv(RDiv(dy, Two), height), RSub(ratio, <<1, 1>>)))

\* The argument of the logarithm is formed without rounding: the operands
\* and the quotient dy/2/height are binary fractions.
ArgumentIsExact(dy, height, ratio) ==
    /\ IsBinary(dy)
    /\ IsBinary(height)
    /\ IsBinary(ratio)
    /\ IsBinary(RDiv(RDiv(dy, Two), height))

\* int(math.log(1+dy/2/height*(ratio-1))/math.log(ratio)) for a positive
\* argument and a positive ratio other than 1.  An argument that equals the
\* ratio is the float of the ratio when ratio - 1 is formed exactly, which
\* it is for a binary fraction and for a ratio of 1/2 or more.
VerticalIntervals(dy, height, ratio) ==
    LET arg == LogArgument(dy, height, ratio)
    IN  IF arg = ratio /\ ~IsBinary(ratio) /\ RLt(ratio, Half)
        THEN {0, 1}
        ELSE IntLogQuotient(arg, ratio)

\* Bits of a float's significand, and the bits by which the rounding of an
\* argument 1 + t that should be 0 can grow: t is wrong by 2^-53 of the
\* ratio, over ratio - 1, which is 2^-31 or more here.
SignificandBits == 53
ResidueBits == 20

\* int(math.log(v)/math.log(ratio)) for v between 2^-53 and 2^-20, the
\* positive values rounding can leave of an argument that is 0: the
\* quotient has a magnitude between 20 and 53 times log(2)/|log(ratio)|.
ResidueIntervals(ratio) ==
    LET big == ~RLt(ratio, <<1, 1>>)
        ms == FloorLog(Two, IF big THEN ratio ELSE RInv(ratio), 0)
        lo == ResidueBits * (CHOOSE m \in ms : \A n \in ms : m <= n)
        hi == SignificandBits * ((CHOOSE m \in ms : \A n \in ms : m >= n) + 1)
    IN  IF big THEN { -m : m \in lo..hi } ELSE lo..hi

\* The exceptions of the division by height, of the two logarithms and of
\* the division by log(ratio), in the order they are evaluated, or "ok"
\* with the truncated quotient n.  An argument that is 0 but was rounded
\* on the way may be left negative, 0 or a small positive number.
LogOutcomes(dy, height, ratio) ==
    LET Raised(outcome) == [outcome |-> outcome, n |-> 0]
        arg == LogArgument(dy, height, ratio)
    IN  IF height = R0 THEN {Raised("ZeroDivisionError")}
        ELSE IF RLt(arg, R0) \/ ~RLt(R0, ratio) THEN {Raised("ValueError")}
        ELSE IF arg = R0
        THEN {Raised("ValueError")}
             \cup (IF ArgumentIsExact(dy, height, ratio) THEN {}
                   ELSE { [outcome |-> "ok", n |-> m] :
                            m \in ResidueIntervals(ratio) })
        ELSE IF ratio = <<1, 1>> THEN {Raised("ZeroDivisionError")}
        ELSE { [outcome |-> "ok", n |-> m] :
                 m \in VerticalIntervals(dy, height, ratio) }

\* Faulty variant of NbPointsY: the count without the three added nodes.
NbPointsYBare(dy, height, ratio) == LogOutcomes(dy, height, ratio)

\* nb_points_y = 3+int(math.log(1+dy/2/height*(ratio-1))/math.log(ratio)):
\* the outcomes and counts the computation can give.
NbPointsY(dy, height, ratio) ==
    { [outcome |-> y.outcome,
       n |-> IF y.outcome = "ok" THEN 3 + y.n ELSE 0] :
      y \in LogOutcomes(dy, height, ratio) }

\* nb_points_wake = int(self.dx_trail / self.mesh_size) + 1, for
\* mesh_size # 0: the values the float quotient allows.
NbPointsWake(dx_trail, mesh_size) ==
    { n + 1 : n \in TruncValues(RDiv(dx_trail, mesh_size),
                                IsBinary(dx_trail) /\ IsBinary(mesh_size)) }

\* nb_airfoil = int((1+dx_lead/4)/ext_mesh_size*2), for ext_mesh_size # 0:
\* the values the float quotient allows.
NbAirfoil(dx_lead, ext_mesh_size) ==
    TruncValues(RMul(RDiv(RAdd(<<1, 1>>, RDiv(dx_lead, <<4, 1>>)),
                          ext_mesh_size), Two),
                IsBinary(dx_lead) /\ IsBinary(ext_mesh_size))

\* Denominator of the rational bounds of a square root.
SqrtDen == 32

\* The integer square root of v >= 0.
ISqrt(v) == CHOOSE n \in 0..(v + 1) : n * n <= v /\ (n + 1) * (n + 1) > v

\* Rationals enclosing math.sqrt(q), q >= 0.
SqrtLow(q) == Rat(ISqrt((q[1] * SqrtDen * SqrtDen) \div q[2]), SqrtDen)
SqrtHigh(q) == Rat(ISqrt((q[1] * SqrtDen * SqrtDen) \div q[2]) + 1, SqrtDen)

\* Rationals enclosing math.atan(t) for 0 <= t <= 1, from the alternating
\* series t - t^3/3 + t^5/5 - t^7/7 + t^9/9 - ...
AtanSmallLow(t) ==
    RSub(RAdd(RSub(t, RDiv(RPow(t, 3), <<3, 1>>)),
              RDiv(RPow(t, 5), <<5, 1>>)),
         RDiv(RPow(t, 7), <<7, 1>>))
AtanSmallHigh(t) == RAdd(AtanSmallLow(t), RDiv(RPow(t, 9), <<9, 1>>))

\* Rationals enclosing math.atan(t) for t >= 0: atan(t) = pi/2 - atan(1/t)
\* above 1.
AtanLow(t) ==
    IF RLe(t, <<1, 1>>) THEN AtanSmallLow(t)
    ELSE RSub(RDiv(PiLow, Two), AtanSmallHigh(RInv(t)))
AtanHigh(t) ==
    IF RLe(t, <<1, 1>>) THEN AtanSmallHigh(t)
    ELSE RSub(RDiv(PiHigh, Two), AtanSmallLow(RInv(t)))

\* r*r of r = math.sqrt(dy*dy/4+(0.5+dx_lead)*(0.5+dx_lead))
RadiusSquared(dx_lead, dy) ==
    RAdd(RDiv(RMul(dy, dy), <<4, 1>>),
         RMul(RAdd(Half, dx_lead), RAdd(Half, dx_lead)))

\* (r/4*theta)/ext_mesh_size*1.4 for given values of r and of atan.
FrontLength(r, atan, ext_mesh_size) ==
    RMul(RDiv(RMul(RDiv(r, <<4, 1>>), RMul(Two, atan)), ext_mesh_size),
         Rat(7, 5))

\* nb_airfoil_front = max(4, int((r/4*theta)/ext_mesh_size*1.4)+1) with
\* theta = 2 * math.atan(dy/(1+2*dx_lead)), for 1+2*dx_lead # 0 and
\* ext_mesh_size # 0: the values allowed by the enclosures of the square
\* root and of the arc tangent.  A length that is not positive gives 4.
NbAirfoilFront(dx_lead, dy, ext_mesh_size) ==
    LET t == RDiv(dy, RAdd(<<1, 1>>, RMul(Two, dx_lead)))
        positive == (RLt(R0, t) = RLt(R0, ext_mesh_size)) /\ t # R0
        lo == FrontLength(SqrtLow(RadiusSquared(dx_lead, dy)),
                          AtanLow(RAbs(t)), RAbs(ext_mesh_size))
        hi == FrontLength(SqrtHigh(RadiusSquared(dx_lead, dy)),
                          AtanHigh(RAbs(t)), RAbs(ext_mesh_size))
        Count(q) == IF Trunc(q) + 1 > 4 THEN Trunc(q) + 1 ELSE 4
    IN  IF positive THEN Count(lo)..Count(hi) ELSE {4}

\* k: the index of the first point of the contour with x > 0.031; -1 when
\* the loop ends without binding k.
NoseK(pts) ==
    LET S == {i \in 0..(Len(pts) - 1) : RGt(pts[i + 1].x, NoseThreshold)}
    IN  IF S = {} THEN -1 ELSE CHOOSE i \in S : \A j \in S : i <= j

\* k2 = l-i for the last index i of the contour with x > 0.031; -1 when the
\* loop ends without binding k2.
NoseK2(pts) ==
    LET S == {i \in 0..(Len(pts) - 1) : RGt(pts[i + 1].x, NoseThreshold)}
    IN  IF S = {} THEN -1
        ELSE Len(pts) - (CHOOSE i \in S : \A j \in S : i >= j)

\* The sorted list with p put behind every element whose x is not larger.
RECURSIVE InsertByX(_, _)
InsertByX(list, p) ==
    IF list = <<>> THEN <<p>>
    ELSE IF RLt(p.x, list[Len(list)].x)
    THEN InsertByX(SubSeq(list, 1, Len(list) - 1), p) \o <<list[Len(list)]>>
    ELSE list \o <<p>>

\* sorted(point_list, key=lambda p: p.x): ascending x, points of equal x in
\* the order of the list.
RECURSIVE SortedByX(_)
SortedByX(list) ==
    IF list = <<>> THEN <<>>
    ELSE InsertByX(SortedByX(SubSeq(list, 1, Len(list) - 1)), list[Len(list)])

\* The eight points of the outer domain, self.points.
CTypePoints(le, te, a, first_tag) ==
    LET xl == RSub(le.x, a.dx_lead)
        xw == RAdd(te.x, a.dx_trail)
        up == RDiv(a.dy, Two)
        dn == RDiv(RNeg(a.dy), Two)
        P(i, x, y) == Point(x, y, R0, a.ext_mesh_size, first_tag + i)
    IN  << P(0, Half, R0), P(1, xl, up), P(2, te.x, up), P(3, xw, up),
           P(4, xw, te.y), P(5, xw, dn), P(6, te.x, dn), P(7, xl, dn) >>

\* Faulty variant of Line: the two ends are exchanged.
LineBackwards(start_point, end_point) ==
    [start_point |-> end_point, end_point |-> start_point]

\* Line(start_point, end_point): the straight curve between two points.
Line(start_point, end_point) ==
    [start_point |-> start_point, end_point |-> end_point]

\* self.lines: the eleven lines L0 to L10 of the outer domain, pts being
\* the eight points of self.points.
CTypeLines(le_upper_point, le_lower_point, te, pts) ==
    << Line(le_upper_point, pts[2]),
       Line(pts[2], pts[3]),
       Line(pts[3], pts[4]),
       Line(pts[4], pts[5]),
       Line(pts[5], pts[6]),
       Line(pts[6], pts[7]),
       Line(pts[7], pts[8]),
       Line(pts[8], le_lower_point),
       Line(te, pts[3]),
       Line(te, pts[7]),
       Line(pts[5], te) >>

\* Faulty variant of PointsFront: the lower front points are not reversed.
PointsFrontUnreversed(su, sl, k, k2) ==
    SubSeq(sl, 1, k2) \o SubSeq(su, 1, k + 1)

\* points_front: the first k2+1 points of the sorted lower list, reversed
\* and without their last, followed by the first k+1 points of the sorted
\* upper list.
PointsFront(su, sl, k, k2) ==
    LET lower_points_front == Reverse(SubSeq(sl, 1, k2 + 1))
    IN  SubSeq(lower_points_front, 1, Len(lower_points_front) - 1)
            \o SubSeq(su, 1, k + 1)

\* The signs the five addCurveLoop calls give to the curves of CurveLoops:
\* -1 for a curve listed with a negated tag.
LoopSigns ==
    << <<1, 1, 1, -1>>,
       <<1, 1, -1, -1>>,
       <<1, 1, 1, 1>>,
       <<-1, -1, 1, 1>>,
       <<1, -1, 1, 1>> >>

\* Faulty variant of Transfinite: one more node on L10.
TransfiniteUneven(curve, n, type, coef) ==
    [curve |-> curve, n |-> IF curve = "L10" THEN n + 1 ELSE n,
     type |-> type, coef |-> coef]

\* One gmsh.model.geo.mesh.setTransfiniteCurve(curve, n, type, coef).
Transfinite(curve, n, type, coef) ==
    [curve |-> curve, n |-> n, type |-> type, coef |-> coef]

\* The fifteen setTransfiniteCurve calls, in the order of the source.
TransfiniteCurves(ny, nfront, nairfoil, nwake, ratio) ==
    LET one == <<1, 1>>
        inv == RInv(ratio)
        wake == Rat(49, 50)
        bump == Rat(1, 5)
    IN  << Transfinite("L7", ny, "Progression", inv),
           Transfinite("spline_front", nfront, "Progression", one),
           Transfinite("L0", ny, "Progression", ratio),
           Transfinite("circle_arc", nfront, "Progression", one),
           Transfinite("L1", nairfoil, "Progression", one),
           Transfinite("L8", ny, "Progression", ratio),
           Transfinite("upper_spline_back", nairfoil, "Bump", bump),
           Transfinite("L2", nwake, "Progression", RInv(wake)),
           Transfinite("L3", ny, "Progression", inv),
           Transfinite("L10", nwake, "Progression", wake),
           Transfinite("L9", ny, "Progression", ratio),
           Transfinite("L4", ny, "Progression", ratio),
           Transfinite("L5", nwake, "Progression", wake),
           Transfinite("lower_spline_back", nairfoil, "Bump", bump),
           Transfinite("L6", nairfoil, "Progression", one) >>

\* The curve loops of the five surfaces A to E, by the curves they name.
CurveLoops ==
    << <<"L7", "spline_front", "L0", "circle_arc">>,
       <<"L0", "L1", "L8", "upper_spline_back">>,
       <<"L8", "L2", "L3", "L10">>,
       <<"L9", "L10", "L4", "L5">>,
       <<"L7", "lower_spline_back", "L9", "L6">> >>

\* Requests of CType.__init__ up to the point where k and k2 are used.
CTypeSkinRequests == <<"addSpline", "addSpline">>

\* Requests from the split of the two splines to the arc of the C.
CTypeGeometryRequests ==
    <<"splitCurve", "splitCurve", "addSpline">>
        \o Requests("addPoint", 8) \o Requests("addLine", 11)
        \o <<"addCircleArc">>

\* Requests of the node counts, the five surfaces and their recombination.
CTypeMeshRequests ==
    Requests("setTransfiniteCurve", 15)
        \o <<"addCurveLoop", "addPlaneSurface", "setTransfiniteSurface",
             "addCurveLoop", "addPlaneSurface", "setTransfiniteSurface",
             "addCurveLoop", "addPlaneSurface", "setTransfiniteSurface",
             "addCurveLoop", "addPlaneSurface", "setTransfiniteSurface",
             "addCurveLoop", "addPlaneSurface", "setTransfiniteSurface">>
        \o Requests("setRecombine", 5)

\* Value of main's ext_domain before CType is constructed.
NoDomain == [built |-> FALSE]

\* CType.__init__ for the airfoil (pts, le, te, le_indx, te_indx), the
\* parameters a, the outcome and values c of the count computations and the
\* value nfront of nb_airfoil_front: how it ends, the requests it sent and
\* the object it made.
CTypeInit(pts, le, te, le_indx, te_indx, a, c, nfront, curves, first_tag) ==
    LET k == NoseK(pts)
        k2 == NoseK2(pts)
        upper == Spline(UpperPoints(pts, le_indx, te_indx), curves + 1)
        lower == Spline(LowerPoints(pts, le_indx, te_indx), curves + 2)
        su == SortedByX(upper.point_list)
        sl == SortedByX(lower.point_list)
        Stopped(outcome, requests) ==
            [outcome |-> outcome, requests |-> requests,
             upper_spline |-> upper, lower_spline |-> lower,
             object |-> NoDomain]
    IN  IF k = -1
        THEN Stopped("UnboundLocalError", CTypeSkinRequests)
        ELSE IF k >= Len(su) \/ k2 >= Len(sl)
        THEN Stopped("IndexError", CTypeSkinRequests)
        ELSE IF c.outcome # "ok"
        THEN Stopped(c.outcome, CTypeSkinRequests \o CTypeGeometryRequests)
        ELSE [outcome |-> "ok",
              requests |-> CTypeSkinRequests \o CTypeGeometryRequests
                              \o CTypeMeshRequests,
              upper_spline |-> upper,
              lower_spline |-> lower,
              object |->
                [built |-> TRUE,
                 k |-> k,
                 k2 |-> k2,
                 le_upper_point |-> su[k + 1],
                 le_lower_point |-> sl[k2 + 1],
                 points |-> CTypePoints(le, te, a, first_tag),
                 lines |-> CTypeLines(su[k + 1], sl[k2 + 1], te,
                                      CTypePoints(le, te, a, first_tag)),
                 points_front |-> PointsFront(su, sl, k, k2),
                 circle_arc |->
                    [start_point |-> CTypePoints(le, te, a, first_tag)[8],
                     centre |-> CTypePoints(le, te, a, first_tag)[1],
                     end_point |-> CTypePoints(le, te, a, first_tag)[2]],
                 nb_points_y |-> c.nb_points_y,
                 transfinite |->
                    TransfiniteCurves(c.nb_points_y, nfront, c.nb_airfoil,
                                      c.nb_points_wake, a.ratio)]]

\* Parameters of structured runs: --arg_struc (dx_lead x dx_wake x dy),
\* --ext_mesh_size, --first_layer and --ratio.  The first two are ordinary;
\* the third makes the argument of the logarithm a power of the ratio; the
\* next three are a negative first layer, a ratio below 1 and a ratio of 1;
\* the last has an exterior mesh size above dx_wake and above 1 + dx_lead/4.
StructArg(dx_lead, dx_trail, dy, ext_mesh_size, first_layer, ratio) ==
    [read |-> TRUE, dx_lead |-> dx_lead, dx_trail |-> dx_trail, dy |-> dy,
     ext_mesh_size |-> ext_mesh_size, first_layer |-> first_layer,
     ratio |-> ratio]

StructArgs ==
    { StructArg(Half, Two, <<1, 1>>, Rat(1, 16), Rat(1, 8), Two),
      StructArg(Half, <<1, 1>>, Two, Half, Rat(1, 8), Rat(3, 2)),
      StructArg(<<1, 1>>, Two, <<3, 1>>, Half, Half, Two),
      StructArg(Half, <<1, 1>>, <<1, 1>>, Half, <<-1, 1>>, Two),
      StructArg(Half, <<1, 1>>, <<1, 1>>, Half, Rat(1, 8), Half),
      StructArg(Half, <<1, 1>>, <<1, 1>>, Half, Rat(1, 8), <<1, 1>>),
      StructArg(Half, <<1, 1>>, <<1, 1>>, Two, Rat(1, 8), Two) }

\* The count computations of CType.__init__, lines 963-993: the exception
\* that ends them ("ok" if none) and the counts, one record for every
\* combination of values the float computations allow; nb_airfoil_front is
\* the set of the values its enclosure allows.
CTypeCounts(a) ==
    LET Raised(outcome, ny) ==
            [outcome |-> outcome, nb_points_y |-> ny, nb_points_wake |-> 0,
             nb_airfoil |-> 0, nb_airfoil_front |-> {4}]
        After(y) ==
            IF y.outcome # "ok" THEN {Raised(y.outcome, y.n)}
            ELSE IF a.ext_mesh_size = R0
            THEN {Raised("ZeroDivisionError", y.n)}
            ELSE IF RAdd(<<1, 1>>, RMul(Two, a.dx_lead)) = R0
            THEN {Raised("ZeroDivisionError", y.n)}
            ELSE { [outcome |-> "ok",
                    nb_points_y |-> y.n,
                    nb_points_wake |-> nw,
                    nb_airfoil |-> na,
                    nb_airfoil_front |->
                        NbAirfoilFront(a.dx_lead, a.dy, a.ext_mesh_size)] :
                   nw \in NbPointsWake(a.dx_trail, a.ext_mesh_size),
                   na \in NbAirfoil(a.dx_lead, a.ext_mesh_size) }
    IN  UNION { After(y) : y \in NbPointsY(a.dy, a.first_layer, a.ratio) }

\* The counts of every parameter combination of the structured runs.
StructCounts == [a \in StructArgs |-> CTypeCounts(a)]

\* ------------------------------------------------------------------------
\* State
\* ------------------------------------------------------------------------
VARIABLES
    entry,          \* "main": the command-line run; "api": AirfoilSpline
                    \* built by a caller from its own contour
    structural,     \* args.structural
    provided_cloud, \* the cloud as the provider (or the caller) delivered it
    cloud_points,   \* main's cloud_points / the caller's point_cloud
    pc,             \* position of the run
    err,            \* outcome of the step that ended the run, "ok" otherwise
    name,           \* AirfoilSpline.name
    points,         \* AirfoilSpline.points
    le,             \* AirfoilSpline.le
    te,             \* AirfoilSpline.te
    le_indx,        \* AirfoilSpline.le_indx
    te_indx,        \* AirfoilSpline.te_indx
    locals,         \* vertical, te_up_indx, te_down_indx and the branch
                    \* taken in AirfoilSpline.__init__
    upper_spline,   \* AirfoilSpline.upper_spline
    lower_spline,   \* AirfoilSpline.lower_spline
    kernel,         \* the requests sent to gmsh, in order
    args,           \* the run's parameters, once the run has read them
    ext_domain      \* main's ext_domain of a structured run: the CType object

vars == <<entry, structural, provided_cloud, cloud_points, pc, err, name,
          points, le, te, le_indx, te_indx, locals, upper_spline,
          lower_spline, kernel, args, ext_domain>>

\* Value of args before the run has read its parameters.
NoArgs == [read |-> FALSE]

NoLocals == [vertical |-> FALSE, te_up_indx |-> -1, te_down_indx |-> -1,
             branch |-> "none"]

Init ==
    /\ entry \in {"main", "api"}
    /\ structural \in (IF entry = "main" THEN BOOLEAN ELSE {FALSE})
    /\ provided_cloud \in (IF entry = "main" THEN Clouds ELSE ApiClouds)
    /\ cloud_points = provided_cloud
    /\ pc = "start"
    /\ err = "ok"
    /\ name = "None"
    /\ points = <<>>
    /\ le = NoPoint
    /\ te = NoPoint
    /\ le_indx = -1
    /\ te_indx = -1
    /\ locals = NoLocals
    /\ upper_spline = NoSpline
    /\ lower_spline = NoSpline
    /\ kernel = <<>>
    /\ args = NoArgs
    /\ ext_domain = NoDomain

\* Number of addPoint requests sent so far; the kernel hands out tags 1, 2, ...
PointCount == Cardinality({i \in 1..Len(kernel) : kernel[i] = "addPoint"})

\* Number of curves created so far.
CurveCount == Cardinality({i \in 1..Len(kernel) : kernel[i] = "addSpline"})

\* How a step that did not return normally ends the run.
Ended(outcome) == IF outcome = "sys.exit" THEN "exited" ELSE "raised"

\* main(), lines 184-194: rotate the cloud to its minimum-x point and
\* reverse it when the second point lies below the first.
Normalize ==
    /\ entry = "main"
    /\ pc = "start"
    /\ \E n \in {NormalizeCloud(cloud_points)} :
           /\ cloud_points' = n.cloud
           /\ err' = n.outcome
           /\ pc' = IF n.outcome = "ok" THEN "normalized" ELSE Ended(n.outcome)
    /\ UNCHANGED <<entry, structural, provided_cloud, name, points, le, te,
                   le_indx, te_indx, locals, upper_spline, lower_spline,
                   kernel, args,
                   ext_domain>>

\* The constructor applied to cloud_points, after the requests in "before".
Construct(before, given_name) ==
    \E res \in AirfoilSplineInit(cloud_points, MeshSize, PointCount + 1) :
        /\ name' = given_name
        /\ points' = res.points
        /\ le' = res.le
        /\ te' = res.te
        /\ le_indx' = res.le_indx
        /\ te_indx' = res.te_indx
        /\ locals' = [vertical |-> res.vertical,
                      te_up_indx |-> res.te_up_indx,
                      te_down_indx |-> res.te_down_indx,
                      branch |-> res.branch]
        /\ kernel' = kernel \o before
                        \o Requests("addPoint", Len(cloud_points) + res.created)
        /\ err' = res.outcome
        /\ pc' = IF res.outcome = "ok" THEN "constructed" ELSE Ended(res.outcome)

\* main(), lines 200-204: gmsh.initialize() and
\* AirfoilSpline(cloud_points, args.airfoil_mesh_size, args.structural).
MainConstruct ==
    /\ entry = "main"
    /\ pc = "normalized"
    /\ Construct(<<"initialize">>, IF structural THEN "True" ELSE "False")
    /\ UNCHANGED <<entry, structural, provided_cloud, cloud_points,
                   upper_spline, lower_spline, args,
                   ext_domain>>

\* A caller's AirfoilSpline(point_cloud, mesh_size) with the default name.
ApiConstruct ==
    /\ entry = "api"
    /\ pc = "start"
    /\ Construct(<<>>, "airfoil")
    /\ UNCHANGED <<entry, structural, provided_cloud, cloud_points,
                   upper_spline, lower_spline, args,
                   ext_domain>>

\* gen_skin: the two splines, created in the kernel upper first.
GenSkin(before, after) ==
    /\ upper_spline' = Spline(UpperPoints(points, le_indx, te_indx),
                              CurveCount + 1)
    /\ lower_spline' = Spline(LowerPoints(points, le_indx, te_indx),
                              CurveCount + 2)
    /\ kernel' = kernel \o before \o <<"addSpline", "addSpline">> \o after
    /\ pc' = "skinned"
    /\ UNCHANGED <<entry, structural, provided_cloud, cloud_points, err, name,
                   points, le, te, le_indx, te_indx, locals, args,
                   ext_domain>>

\* main(), lines 205-207: airfoil.rotation(aoa, ...) (one rotate request per
\* point, then synchronize), airfoil.gen_skin() and synchronize.  The rotation
\* acts in the kernel only: the x, y of the Point objects stay as they are.
MainSkin ==
    /\ entry = "main"
    /\ pc = "constructed"
    /\ GenSkin(Requests("rotate", Len(points)) \o <<"synchronize">>,
               <<"synchronize">>)

\* The most requests the log may hold for a caller to go on calling
\* methods of its airfoil.
MaxApiRequests == 7

\* A caller holds an airfoil and may call another of its methods.
ApiCallable ==
    /\ entry = "api"
    /\ pc \in {"constructed", "reconstructed", "skinned"}
    /\ Len(kernel) < MaxApiRequests

\* A caller's airfoil.gen_skin(): the first one, or another one, which
\* replaces the two splines by new ones.
ApiSkin ==
    /\ entry = "api"
    /\ pc = "constructed" \/ ApiCallable
    /\ GenSkin(<<>>, <<>>)

\* A caller's airfoil.translation(vector): one translate request per point;
\* the x, y, z of the Point objects stay as they are.
ApiTranslation ==
    /\ ApiCallable
    /\ kernel' = kernel \o Requests("translate", Len(points))
    /\ UNCHANGED <<entry, structural, provided_cloud, cloud_points, pc, err,
                   name, points, le, te, le_indx, te_indx, locals,
                   upper_spline, lower_spline, args, ext_domain>>

\* A caller's airfoil.rotation(angle, origin, axis): one rotate request per
\* point, then synchronize; the Point objects stay as they are.
ApiRotation ==
    /\ ApiCallable
    /\ kernel' = kernel \o Requests("rotate", Len(points)) \o <<"synchronize">>
    /\ UNCHANGED <<entry, structural, provided_cloud, cloud_points, pc, err,
                   name, points, le, te, le_indx, te_indx, locals,
                   upper_spline, lower_spline, args, ext_domain>>

\* A method of the airfoil that reads self.upper_spline and sends the
\* requests reqs: before gen_skin the attribute does not exist.
ApiUseSplines(reqs) ==
    /\ ApiCallable
    /\ IF pc = "skinned"
       THEN /\ kernel' = kernel \o reqs
            /\ UNCHANGED <<pc, err>>
       ELSE /\ kernel' = kernel
            /\ err' = "AttributeError"
            /\ pc' = "raised"
    /\ UNCHANGED <<entry, structural, provided_cloud, cloud_points, name,
                   points, le, te, le_indx, te_indx, locals, upper_spline,
                   lower_spline, args, ext_domain>>

\* A caller's airfoil.close_loop(): CurveLoop([upper_spline, lower_spline]).
ApiCloseLoop == ApiUseSplines(<<"addCurveLoop">>)

\* A caller's airfoil.define_bc(): the physical group of the two splines
\* and its name.
ApiDefineBc == ApiUseSplines(BcRequests(1))

\* The coordinates (x, y, z) of a sequence of Point objects: the point
\* cloud a caller reads back from airfoil.points.
CoordsOf(pts) == [i \in 1..Len(pts) |-> <<pts[i].x, pts[i].y, pts[i].z>>]

\* Every coordinate of pts has a denominator of at most MaxSquareDen.
Squarable(pts) ==
    \A i \in 1..Len(pts) :
        pts[i].x[2] <= MaxSquareDen /\ pts[i].y[2] <= MaxSquareDen

\* A caller's next AirfoilSpline(point_cloud, mesh_size), built from the
\* points the construction before left behind: a new object, without
\* splines until its gen_skin.  The points are numbers as written as long
\* as they are those of the provided cloud, no repair having added one.
ApiReconstruct ==
    /\ entry = "api"
    /\ pc = "constructed" \/ ApiCallable
    /\ cloud_points' = CoordsOf(points)
    /\ \E res \in AirfoilSplineInitFrom(CoordsOf(points), MeshSize,
                                        PointCount + 1,
                                        Len(points) = Len(provided_cloud)) :
        /\ points' = res.points
        /\ le' = res.le
        /\ te' = res.te
        /\ le_indx' = res.le_indx
        /\ te_indx' = res.te_indx
        /\ locals' = [vertical |-> res.vertical,
                      te_up_indx |-> res.te_up_indx,
                      te_down_indx |-> res.te_down_indx,
                      branch |-> res.branch]
        /\ kernel' = kernel \o Requests("addPoint", Len(points) + res.created)
        /\ err' = res.outcome
        /\ pc' = IF res.outcome = "ok" THEN "reconstructed"
                 ELSE Ended(res.outcome)
    /\ upper_spline' = NoSpline
    /\ lower_spline' = NoSpline
    /\ UNCHANGED <<entry, structural, provided_cloud, name, args,
                   ext_domain>>

\* Positions in points, counted from 1, of the points the constructor
\* computed: the one its repair inserted, which it made the trailing edge.
ComputedPoints ==
    IF Len(points) > Len(cloud_points) THEN {te_indx + 1} ELSE {}

\* Faulty variant of AfterCheck: the run goes on whatever the check said.
AfterCheckGoOn(res) == "checked"

\* Where main() stands after outofbounds: sys.exit() inside it ends the run.
AfterCheck(res) == IF res = "ok" THEN "checked" ELSE Ended(res)

\* main(), lines 214-225 of a non-structured run: the layer distances and
\* outofbounds(airfoil, args.box, args.farfield, d[-1]).  The parameters of
\* the run take their value here, where the run first reads them.
MainOutOfBounds ==
    /\ entry = "main"
    /\ pc = "skinned"
    /\ ~structural
    /\ \E a \in PlainArgs :
        /\ a.box.given \/ Squarable(points)
        /\ args' = a
        /\ \E res \in outofbounds(points, a.box, a.farfield,
                                  BlThickness(a.first_layer, a.ratio,
                                              a.nb_layers),
                                  ComputedPoints) :
            /\ err' = res
            /\ pc' = AfterCheck(res)
    /\ UNCHANGED <<entry, structural, provided_cloud, cloud_points, name,
                   points, le, te, le_indx, te_indx, locals, upper_spline,
                   lower_spline, kernel,
                   ext_domain>>

\* main(), lines 227-267: the exterior domain, the surface, the boundary
\* layer field unless --no_bl, the markers, with their synchronize requests.
MainExterior ==
    /\ entry = "main"
    /\ pc = "checked"
    /\ \E domain \in (IF args.box.given
                      THEN {[outcome |-> "ok", requests |-> RectangleRequests]}
                      ELSE CircleInit(args.farfield, args.ext_mesh_size)) :
           IF domain.outcome # "ok"
           THEN /\ err' = domain.outcome
                /\ pc' = "raised"
                /\ kernel' = kernel \o domain.requests
           ELSE /\ err' = err
                /\ pc' = "domain"
                /\ kernel' =
                     kernel
                       \o domain.requests
                       \o <<"synchronize">>
                       \o PlaneSurfaceRequests
                       \o <<"synchronize">>
                       \o (IF args.no_bl THEN <<>> ELSE BoundaryLayerRequests)
                       \o BcRequests(IF args.box.given THEN 3 ELSE 1)
                       \o BcRequests(2)
                       \o <<"synchronize">>
    /\ UNCHANGED <<entry, structural, provided_cloud, cloud_points, name,
                   points, le, te, le_indx, te_indx, locals, upper_spline,
                   lower_spline, args,
                   ext_domain>>

\* main(), lines 269-284: mesh options, generation, optimisation, output.
MainMesh ==
    /\ entry = "main"
    /\ pc = "domain"
    /\ kernel' = kernel \o MeshRequests
    /\ pc' = "done"
    /\ UNCHANGED <<entry, structural, provided_cloud, cloud_points, err, name,
                   points, le, te, le_indx, te_indx, locals, upper_spline,
                   lower_spline, args,
                   ext_domain>>

Next ==
    \/ Normalize
    \/ MainConstruct
    \/ ApiConstruct
    \/ ApiReconstruct
    \/ MainSkin
    \/ ApiSkin
    \/ ApiTranslation
    \/ ApiRotation
    \/ ApiCloseLoop
    \/ ApiDefineBc
    \/ MainOutOfBounds
    \/ MainExterior
    \/ MainMesh

Spec == Init /\ [][Next]_vars

\* ------------------------------------------------------------------------
\* outofbounds called on its own
\* ------------------------------------------------------------------------
\* Longest cloud of the airfoils handed to outofbounds.
OobLen == 4

\* Coordinates of a blunt trailing region whose rays meet at (1, 0): the
\* point the repair computes there has binary fractions for exact
\* coordinates, which its floats need not be.
UnitPoints ==
    { <<Rat(91, 100), Rat(9, 200), R0>>,
      <<Rat(23, 25), Rat(1, 25), R0>>,
      <<Rat(23, 25), Rat(-1, 25), R0>>,
      <<Rat(91, 100), Rat(-9, 200), R0>> }

\* The short clouds a caller builds the airfoils from.
OobClouds ==
    UNION { [1..n -> CoarsePoints] \cup [1..n -> UnitPoints] :
              n \in 1..OobLen }

\* The airfoils a caller can build from the cloud c.
OobAirfoils(c) ==
    { res \in AirfoilSplineInit(c, MeshSize, 1) : res.outcome = "ok" }

Boxes ==
    {NoBox} \cup { Box(l, w) : l \in {<<1, 1>>, <<2, 1>>},
                               w \in {Rat(1, 25), Rat(1, 5)} }
Radii == {Rat(2, 5), Rat(1, 2), <<1, 1>>}
Thicknesses == {R0, Rat(1, 100), Rat(-1, 100)}

OobInit ==
    /\ entry = "outofbounds"
    /\ structural = FALSE
    /\ provided_cloud = <<>>
    /\ cloud_points \in OobClouds
    /\ pc = "start"
    /\ err = "ok"
    /\ name = "airfoil"
    /\ \E res \in OobAirfoils(cloud_points) :
        /\ points = res.points
        /\ le = res.le
        /\ te = res.te
        /\ le_indx = res.le_indx
        /\ te_indx = res.te_indx
    /\ locals = NoLocals
    /\ upper_spline = NoSpline
    /\ lower_spline = NoSpline
    /\ kernel = <<>>
    /\ args \in [read : {TRUE}, box : Boxes, radius : Radii,
                 blthick : Thicknesses]
    /\ ext_domain = NoDomain

\* A caller's outofbounds(airfoil, box, radius, blthick).
OutOfBoundsCall ==
    /\ entry = "outofbounds"
    /\ pc = "start"
    /\ \E res \in outofbounds(points, args.box, args.radius, args.blthick,
                              ComputedPoints) :
        /\ err' = res
        /\ pc' = IF res = "ok" THEN "returned" ELSE Ended(res)
    /\ UNCHANGED <<entry, structural, provided_cloud, cloud_points, name,
                   points, le, te, le_indx, te_indx, locals, upper_spline,
                   lower_spline, kernel, args,
                   ext_domain>>

OobNext == OutOfBoundsCall

OobSpec == OobInit /\ [][OobNext]_vars

\* ------------------------------------------------------------------------
\* gmshairfoil2d.py: the structured run of main()
\* ------------------------------------------------------------------------
\* Longest cloud of the structured runs.
NoseLen == 5

\* Coordinates of a profile sampled around its nose: the leading edge, a
\* point before the threshold x = 0.031, a point behind it on each side and
\* the trailing edge.
NosePoints ==
    { <<R0, R0, R0>>,
      <<Rat(1, 64), Rat(1, 32), R0>>,
      <<Rat(1, 16), Rat(1, 16), R0>>,
      <<<<1, 1>>, R0, R0>>,
      <<Rat(1, 16), Rat(-1, 16), R0>> }

NoseClouds == UNION { [1..n -> NosePoints] : n \in 1..NoseLen }

StructInit ==
    /\ entry = "main"
    /\ structural = TRUE
    /\ provided_cloud \in NoseClouds
    /\ cloud_points = provided_cloud
    /\ pc = "start"
    /\ err = "ok"
    /\ name = "None"
    /\ points = <<>>
    /\ le = NoPoint
    /\ te = NoPoint
    /\ le_indx = -1
    /\ te_indx = -1
    /\ locals = NoLocals
    /\ upper_spline = NoSpline
    /\ lower_spline = NoSpline
    /\ kernel = <<>>
    /\ args = NoArgs
    /\ ext_domain = NoDomain

\* main(), lines 209-213: the run reads --arg_struc, --ext_mesh_size,
\* --first_layer and --ratio and constructs CType.
MainCType ==
    /\ entry = "main"
    /\ structural
    /\ pc = "skinned"
    /\ \E a \in StructArgs :
        \E c \in StructCounts[a] :
        \E nfront \in c.nb_airfoil_front :
        \E res \in {CTypeInit(points, le, te, le_indx, te_indx, a,
                              c, nfront, CurveCount,
                              PointCount + 1)} :
            /\ args' = a
            /\ upper_spline' = res.upper_spline
            /\ lower_spline' = res.lower_spline
            /\ kernel' = kernel \o res.requests
            /\ ext_domain' = res.object
            /\ err' = res.outcome
            /\ pc' = IF res.outcome = "ok" THEN "ctype" ELSE Ended(res.outcome)
    /\ UNCHANGED <<entry, structural, provided_cloud, cloud_points, name,
                   points, le, te, le_indx, te_indx, locals>>

\* main(), lines 267-284 of a structured run: synchronize, the mesh options,
\* generation, optimisation and the written file.
StructMesh ==
    /\ entry = "main"
    /\ structural
    /\ pc = "ctype"
    /\ kernel' = kernel \o <<"synchronize">> \o MeshRequests
    /\ pc' = "done"
    /\ UNCHANGED <<entry, structural, provided_cloud, cloud_points, err, name,
                   points, le, te, le_indx, te_indx, locals, upper_spline,
                   lower_spline, args, ext_domain>>

StructNext ==
    \/ Normalize
    \/ MainConstruct
    \/ MainSkin
    \/ MainCType
    \/ StructMesh

StructSpec == StructInit /\ [][StructNext]_vars

\* ------------------------------------------------------------------------
\* Properties
\* ------------------------------------------------------------------------
Range(s) == { s[i] : i \in 1..Len(s) }

\* The tag of the first Point the constructor made from the contour: the
\* smallest tag among its points, the next free tag before it has run.
ContourFirstTag ==
    IF Len(points) = 0 THEN PointCount + 1
    ELSE CHOOSE t \in { points[i].tag : i \in 1..Len(points) } :
             \A i \in 1..Len(points) : t <= points[i].tag

\* The Point objects of the contour as the constructor received it.
ContourPoints == MakePoints(cloud_points, MeshSize, ContourFirstTag)

\* The constructor inserted a repair point.
RepairInserted == Len(points) = Len(cloud_points) + 1

\* C1: after AirfoilSpline construction and gen_skin, upper_points[0] and
\* lower_points[-1] are the leading-edge point (index 0, of minimum x), and
\* upper_points[-1] and lower_points[0] are the trailing-edge point: the
\* synthesized point when a repair inserted one, the original point of
\* maximum x otherwise.
C1_SplitSharesEdgePoints ==
    pc = "skinned" =>
        LET up == upper_spline.point_list
            lo == lower_spline.point_list
            orig == ContourPoints
        IN  /\ Len(up) >= 1 /\ Len(lo) >= 1
            /\ up[1] = le /\ lo[Len(lo)] = le
            /\ le = orig[1]
            /\ \A i \in 1..Len(orig) : RLe(le.x, orig[i].x)
            /\ up[Len(up)] = te /\ lo[1] = te
            /\ IF RepairInserted
               THEN te \notin Range(orig) /\ te.tag = Len(orig) + 1
               ELSE /\ te \in Range(orig)
                    /\ \A i \in 1..Len(orig) : RLe(orig[i].x, te.x)

\* C1 witness: a split made after the repair inserted the ray intersection.
C1_Witness ==
    /\ pc = "skinned"
    /\ RepairInserted
    /\ locals.branch = "intersection"
    /\ upper_spline.point_list[Len(upper_spline.point_list)] = te

\* C2: upper_points without its last element (the trailing edge, which
\* lower_points repeats), followed by lower_points, is the stored contour in
\* order followed by the leading-edge point; every contour point is a
\* distinct object, and the contour is the given one plus at most the
\* inserted trailing edge.
C2_SplitTraversesContourOnce ==
    pc = "skinned" =>
        LET up == upper_spline.point_list
            lo == lower_spline.point_list
            orig == ContourPoints
        IN  /\ Len(up) >= 1
            /\ SubSeq(up, 1, Len(up) - 1) \o lo = points \o <<points[1]>>
            /\ \A i, j \in 1..Len(points) : points[i] = points[j] => i = j
            /\ IF RepairInserted
               THEN points = Insert(orig, te_indx, te)
               ELSE points = orig

\* C2 witness: a split of a contour repaired with the fallback point.
C2_Witness ==
    /\ pc = "skinned"
    /\ RepairInserted
    /\ locals.branch = "fallback"
    /\ Len(upper_spline.point_list) + Len(lower_spline.point_list)
           = Len(points) + 2

\* Twice the signed (shoelace) area of the closed polygon c: positive for a
\* counter-clockwise polygon, negative for a clockwise one.
RECURSIVE ShoelaceFrom(_, _)
ShoelaceFrom(c, i) ==
    IF i > Len(c) THEN R0
    ELSE LET p == c[i]
             q == c[(i % Len(c)) + 1]
         IN  RAdd(RSub(RMul(p[1], q[2]), RMul(q[1], p[2])),
                  ShoelaceFrom(c, i + 1))

SignedArea2(c) == ShoelaceFrom(c, 1)

\* 0-based positions of the points of minimum x in the provided cloud.
MinXPositions ==
    { i \in 0..(Len(provided_cloud) - 1) :
        \A j \in 0..(Len(provided_cloud) - 1) :
            RLe(At(provided_cloud, i)[1], At(provided_cloud, j)[1]) }

Lowest(S) == CHOOSE i \in S : \A j \in S : i <= j
Highest(S) == CHOOSE i \in S : \A j \in S : j <= i

\* out is inp rotated so that inp[k] comes first, in the same order.
IsRotation(out, inp, k) ==
    /\ Len(out) = Len(inp)
    /\ \A i \in 0..(Len(inp) - 1) : At(out, i) = At(inp, (k + i) % Len(inp))

\* out starts at inp[k] and then runs through inp backwards.
IsReversedRotation(out, inp, k) ==
    /\ Len(out) = Len(inp)
    /\ \A i \in 0..(Len(inp) - 1) :
          At(out, i) = At(inp, (k + Len(inp) - i) % Len(inp))

\* C3 (as claimed): for a closed cloud of at least 3 distinct points (and of
\* non-zero area, so that it has a winding), the normalised sequence starts
\* at a point of globally minimum x and is clockwise: its signed area is
\* negative.
C3_NormalizedIsClockwise ==
    (/\ entry = "main"
     /\ pc = "normalized"
     /\ Cardinality(Range(provided_cloud)) >= 3
     /\ SignedArea2(provided_cloud) # R0)
    => /\ \A i \in 1..Len(cloud_points) :
             RLe(cloud_points[1][1], cloud_points[i][1])
       /\ RLt(SignedArea2(cloud_points), R0)

\* C4 (as claimed): when several points of a cloud (of at least 3 distinct
\* points) share the minimum x, the sequence is rotated so that the first
\* of them in input order becomes index 0.
C4_FirstTiedPointLeads ==
    (/\ entry = "main"
     /\ pc = "normalized"
     /\ Cardinality(Range(provided_cloud)) >= 3
     /\ Cardinality(MinXPositions) >= 2)
    => \/ IsRotation(cloud_points, provided_cloud, Lowest(MinXPositions))
       \/ IsReversedRotation(cloud_points, provided_cloud,
                             Lowest(MinXPositions))

\* C4 (amended): when several points share the minimum x, the sequence is
\* rotated so that the last of them in input order becomes index 0, or the
\* earliest point with the same coordinates as that last one.
C4_LastTiedPointLeads ==
    (/\ entry = "main"
     /\ pc = "normalized"
     /\ Cardinality(MinXPositions) >= 2)
    => LET last == Highest(MinXPositions)
           k == Lowest({ i \in 0..last :
                          At(provided_cloud, i) = At(provided_cloud, last) })
       IN  \/ IsRotation(cloud_points, provided_cloud, k)
           \/ IsReversedRotation(cloud_points, provided_cloud, k)

\* C4 witness: three points tie for the minimum x, with different
\* coordinates, and the last of them leads the normalised sequence.
C4_Witness ==
    /\ entry = "main"
    /\ pc = "normalized"
    /\ Cardinality(MinXPositions) >= 3
    /\ At(provided_cloud, Lowest(MinXPositions))
           # At(provided_cloud, Highest(MinXPositions))
    /\ At(cloud_points, 0) = At(provided_cloud, Highest(MinXPositions))
    /\ Highest(MinXPositions) # 0

\* C5 (as claimed): a cloud of fewer than 3 distinct points fails in the
\* normalisation: no contour, split or kernel geometry comes from it.
C5_DegenerateCloudIsFatal ==
    (entry = "main" /\ Cardinality(Range(provided_cloud)) < 3)
    => /\ pc \in {"start", "raised", "exited"}
       /\ kernel = <<>>
       /\ points = <<>>

\* The constructor has been called.
Constructed == name # "None"

\* C6 (as claimed): a contour whose minimum-x point is not at index 0 makes
\* the constructor abort with the numeration error before any kernel
\* request, point creation included, was issued.
C6_AbortBeforeKernelRequests ==
    (/\ Constructed
     /\ Len(cloud_points) > 0
     /\ IndexOfMinX(ContourPoints) # 0)
    => /\ pc = "exited"
       /\ err = "sys.exit"
       /\ \A i \in 1..Len(kernel) : kernel[i] # "addPoint"

\* The trailing edge the constructor found before any repair.
Te0 == At(ContourPoints, IndexOfMaxX(ContourPoints))

\* The constructor classified the trailing edge as blunt.
Blunt == Constructed /\ locals.vertical

\* The constructor went on to compute the two rays (both neighbours exist).
RaysComputed ==
    /\ Blunt
    /\ InRange(ContourPoints, locals.te_up_indx - 1)
    /\ InRange(ContourPoints, locals.te_down_indx + 1)

\* The rays of the contour the constructor received.
ContourRays == Rays(ContourPoints, locals.te_up_indx, locals.te_down_indx)

\* The point (px, py) lies on the line through (qx, qy) of direction
\* (vx, vy) # (0, 0).
OnLine(px, py, qx, qy, vx, vy) ==
    IF vx # R0
    THEN py = RAdd(qy, RMul(RDiv(RSub(px, qx), vx), vy))
    ELSE px = qx

\* A contour as the data model wants it: at least 3 distinct points, no two
\* cyclically consecutive points equal.
ValidContour(c) ==
    /\ Cardinality(Range(c)) >= 3
    /\ \A i \in 1..Len(c) : c[i] # c[(i % Len(c)) + 1]

\* C7 (as claimed): of the two trailing points of a blunt trailing edge (of
\* a valid contour with some extent in x), the one used as te_up is not
\* below the one used as te_down.
C7_UpperTrailingIsHigher ==
    (Blunt /\ ValidContour(cloud_points) /\ le.x # Te0.x)
    => RLe(At(cloud_points, locals.te_down_indx)[2],
           At(cloud_points, locals.te_up_indx)[2])

\* C8 (as claimed): for a blunt trailing edge of a valid contour with
\* non-parallel rays meeting at abscissa xi, exactly one of three outcomes
\* occurs: the intersection point becomes the trailing edge when
\* te.x < xi <= te.x + 0.1; nothing changes when te.x - 0.001 < xi <= te.x;
\* otherwise the trailing edge is the point of x = te.x + 0.05 on the line
\* through the midpoint of the two trailing points along the mean of the
\* two ray vectors.
C8_ThreeWayRepair ==
    (RaysComputed /\ ValidContour(cloud_points) /\ Det(ContourRays) # R0)
    => \A xi \in MeetX(ContourRays) :
       LET r == ContourRays
       IN  IF RLt(Te0.x, xi) /\ RLe(xi, RAdd(Te0.x, Rat(1, 10)))
           THEN /\ err = "ok"
                /\ RepairInserted
                /\ te.x = xi
                /\ OnLine(te.x, te.y, r.x, r.y, r.a, r.b)
                /\ OnLine(te.x, te.y, r.z, r.w, r.c, r.d)
           ELSE IF RLt(RSub(Te0.x, Rat(1, 1000)), xi) /\ RLe(xi, Te0.x)
           THEN /\ err = "ok"
                /\ points = ContourPoints
                /\ te = Te0
           ELSE /\ err = "ok"
                /\ RepairInserted
                /\ te.x = RAdd(Te0.x, Rat(1, 20))
                /\ OnLine(te.x, te.y,
                          RDiv(RAdd(r.x, r.z), Two), RDiv(RAdd(r.y, r.w), Two),
                          RAdd(r.a, r.c), RAdd(r.b, r.d))

\* C9 (as claimed): for a blunt trailing edge (of a valid contour with some
\* extent in x) whose rays are exactly parallel, b*c - a*d = 0, the fallback
\* is taken and the new trailing edge has x = te.x + 0.05.
C9_ParallelRaysTakeFallback ==
    (/\ RaysComputed
     /\ ValidContour(cloud_points)
     /\ le.x # Te0.x
     /\ Det(ContourRays) = R0)
    => /\ err = "ok"
       /\ locals.branch = "fallback"
       /\ RepairInserted
       /\ te.x = RAdd(Te0.x, Rat(1, 20))

\* C10 (as claimed): when main() builds the airfoil of a non-structured run,
\* blunt-trailing-edge handling is not requested and the point sequence,
\* the trailing edge and its index stay as given.
C10_NoRepairUnlessRequested ==
    (/\ entry = "main"
     /\ ~structural
     /\ ValidContour(provided_cloud)
     /\ pc \in {"constructed", "skinned"})
    => /\ points = ContourPoints
       /\ te = Te0
       /\ te_indx = IndexOfMaxX(ContourPoints)

\* C11: when the repair produced a point, the contour has grown by exactly
\* one point; the new point sits at the index the lower trailing point had,
\* te_indx is that index and points[te_indx] is the new point (te); the
\* upper trailing point is its immediate predecessor, the lower trailing
\* point its immediate successor, and the original points keep their order
\* on both sides of it.
C11_RepairInsertsAtLowerTrailing ==
    (/\ pc \in {"constructed", "skinned"}
     /\ locals.branch \in {"intersection", "fallback"})
    => LET orig == ContourPoints
           up == locals.te_up_indx
           dn == locals.te_down_indx
       IN  /\ Len(points) = Len(orig) + 1
           /\ te_indx = dn
           /\ dn >= 1 /\ up = dn - 1
           /\ At(points, te_indx) = te
           /\ te \notin Range(orig)
           /\ At(points, te_indx - 1) = At(orig, up)
           /\ At(points, te_indx + 1) = At(orig, dn)
           /\ \A i \in 0..(Len(orig) - 1) :
                 At(orig, i) = At(points, IF i < dn THEN i ELSE i + 1)

\* C11 witness: a repair that inserted its point in the middle of a contour
\* of four points, after the "elif" labelling (te_up is the trailing edge).
C11_Witness ==
    /\ pc = "constructed"
    /\ locals.branch \in {"intersection", "fallback"}
    /\ Len(points) = 5
    /\ locals.te_down_indx = 2
    /\ At(points, 2) = te
    /\ At(points, 1) = At(ContourPoints, 1)
    /\ At(points, 3) = At(ContourPoints, 2)

\* The latest construction was made from the points of one that had
\* inserted a repair point.
SecondRunOnRepaired ==
    entry = "api" /\ Len(cloud_points) > Len(provided_cloud)

\* C12 (as claimed): a second construction from a repaired contour does not
\* classify the trailing edge as blunt and inserts no further point: its
\* point sequence is the one it was given.
C12_SecondRunNotBlunt ==
    SecondRunOnRepaired
    => /\ ~locals.vertical
       /\ CoordsOf(points) = cloud_points

\* C13 (as claimed): on a valid contour, clockwise and with its minimum-x
\* point at index 0, the constructor raises neither an out-of-range index
\* nor a division by zero, wherever the trailing edge sits.
C13_NoDegeneracyError ==
    (/\ Constructed
     /\ ValidContour(cloud_points)
     /\ le_indx = 0
     /\ RLt(SignedArea2(cloud_points), R0))
    => /\ err \notin {"IndexError", "ZeroDivisionError"}
       /\ pc # "raised"

SkinKernel ==
    <<"initialize">> \o Requests("addPoint", Len(points))
        \o Requests("rotate", Len(points)) \o <<"synchronize">>
        \o <<"addSpline", "addSpline", "synchronize">>

\* The out-of-bounds check of the run, decided anew from the airfoil and the
\* parameters the run read: it cannot pass.
CheckFails ==
    "ok" \notin outofbounds(points, args.box, args.farfield,
                            BlThickness(args.first_layer, args.ratio,
                                        args.nb_layers),
                            ComputedPoints)

\* C15: in a non-structured run, as long as the out-of-bounds check has not
\* been passed the kernel holds the airfoil's own requests only: no request
\* for the exterior domain, a surface or the mesh.  A run whose check fails
\* has ended, and no mesh generation or write request was issued.
C15_CheckBeforeExteriorAndMesh ==
    (entry = "main" /\ ~structural)
    => /\ (kernel # <<>> /\ pc \notin {"constructed", "raised"}
             /\ kernel # SkinKernel)
            => (args.read /\ ~CheckFails /\ pc \in {"domain", "done"})
       /\ (args.read /\ CheckFails)
            => /\ pc = "exited"
               /\ err = "sys.exit"
               /\ kernel = SkinKernel
               /\ \A i \in 1..Len(kernel) :
                     kernel[i] \notin {"mesh.generate", "write"}
       /\ (\E i \in 1..Len(kernel) : kernel[i] \in {"mesh.generate", "write"})
            => pc = "done"

\* C15 witness: a run ended by the check, the airfoil being in the kernel
\* and nothing else.
C15_Witness ==
    /\ entry = "main"
    /\ ~structural
    /\ args.read
    /\ pc = "exited"
    /\ CheckFails
    /\ kernel = SkinKernel
    /\ Len(points) >= 3

\* r**n for any integer n.
RPowInt(r, n) == IF n >= 0 THEN RPow(r, n) ELSE RInv(RPow(r, -n))

\* h*(r^n - 1)/(r - 1): the length of n intervals growing by r from h.
GeoSum(h, r, n) ==
    RDiv(RMul(h, RSub(RPowInt(r, n), <<1, 1>>)), RSub(r, <<1, 1>>))

\* A structured run that built its CType from a positive first layer
\* height, a ratio above 1 and a positive height dy.
BuiltFromPositive ==
    /\ structural
    /\ args.read
    /\ ext_domain.built
    /\ RLt(R0, args.first_layer)
    /\ RLt(<<1, 1>>, args.ratio)
    /\ RLt(R0, args.dy)

\* C16 (as claimed): for positive h, r > 1 and dy, N = nb_points_y
\* intervals reach the half-height, h*(r^N - 1)/(r - 1) >= dy/2, and N is
\* minimal: N - 1 intervals do not reach it.
C16_CountReachesAndIsMinimal ==
    BuiltFromPositive
    => /\ RLe(RDiv(args.dy, Two),
              GeoSum(args.first_layer, args.ratio, ext_domain.nb_points_y))
       /\ RLt(GeoSum(args.first_layer, args.ratio,
                     ext_domain.nb_points_y - 1),
              RDiv(args.dy, Two))

\* C16 (amended): for positive h, r > 1 and dy, N = nb_points_y intervals
\* reach the half-height and so do N - 2 intervals, while N - 3 intervals
\* do not exceed it: N is the minimal count plus two, or plus two or three
\* (as the quotient of the logarithms is rounded) when the minimal count
\* fills the half-height exactly.
C16_CountReachesWithMargin ==
    BuiltFromPositive
    => /\ RLe(RDiv(args.dy, Two),
              GeoSum(args.first_layer, args.ratio, ext_domain.nb_points_y))
       /\ RLe(RDiv(args.dy, Two),
              GeoSum(args.first_layer, args.ratio,
                     ext_domain.nb_points_y - 2))
       /\ RLe(GeoSum(args.first_layer, args.ratio,
                     ext_domain.nb_points_y - 3),
              RDiv(args.dy, Two))

\* C16 witness: a CType built for dy = 1, a first layer of 1/8 and ratio 2:
\* five nodes, of which three intervals already reach the half-height 1/2
\* (7/8) and two do not (3/8).
C16_Witness ==
    /\ BuiltFromPositive
    /\ args.dy = <<1, 1>>
    /\ args.first_layer = Rat(1, 8)
    /\ args.ratio = Two
    /\ ext_domain.nb_points_y = 5
    /\ GeoSum(args.first_layer, args.ratio, 3) = Rat(7, 8)
    /\ GeoSum(args.first_layer, args.ratio, 2) = Rat(3, 8)

\* The parameters of the run give a non-positive argument to the logarithm
\* or a vertical node count below 3.
BadVerticalCount ==
    /\ args.first_layer # R0
    /\ \/ ~RLt(R0, LogArgument(args.dy, args.first_layer, args.ratio))
       \/ \E y \in NbPointsY(args.dy, args.first_layer, args.ratio) :
             y.outcome = "ok" /\ y.n < 3

\* C17 (as claimed): when first_layer, ratio and dy give a vertical node
\* count below 3 or a non-positive argument of the logarithm, the
\* construction of CType ends in an error, and no transfinite constraint,
\* curve loop or surface has been handed to the kernel.
C17_BadCountIsFatal ==
    (structural /\ args.read /\ BadVerticalCount)
    => /\ pc = "raised"
       /\ ~ext_domain.built
       /\ \A i \in 1..Len(kernel) :
             kernel[i] \notin {"setTransfiniteCurve", "addCurveLoop",
                               "addPlaneSurface", "setTransfiniteSurface"}

\* The fifteen boundary curves of the five blocks.
BlockCurves == UNION { Range(CurveLoops[b]) : b \in 1..5 }

\* The node counts handed to the kernel for a curve.
CountsOf(curve) ==
    { ext_domain.transfinite[i].n :
        i \in { j \in 1..Len(ext_domain.transfinite) :
                  ext_domain.transfinite[j].curve = curve } }

\* The number of setTransfiniteCurve calls made for a curve.
CallsFor(curve) ==
    Cardinality({ j \in 1..Len(ext_domain.transfinite) :
                    ext_domain.transfinite[j].curve = curve })

\* C18: in the topology CType builds, each of the 15 boundary curves of the
\* blocks A to E is given a node count exactly once (so a curve shared by
\* two blocks has one count in both), and in every block the first and
\* third side and the second and fourth side of its curve loop, which lie
\* opposite each other, have equal counts.
C18_OppositeSidesAgree ==
    (structural /\ ext_domain.built)
    => /\ Cardinality(BlockCurves) = 15
       /\ Len(ext_domain.transfinite) = 15
       /\ \A c \in BlockCurves : CallsFor(c) = 1
       /\ \A b \in 1..5 :
             /\ CountsOf(CurveLoops[b][1]) = CountsOf(CurveLoops[b][3])
             /\ CountsOf(CurveLoops[b][2]) = CountsOf(CurveLoops[b][4])
       /\ <<CurveLoops[1][1], CurveLoops[1][3]>> = <<"L7", "L0">>
       /\ <<CurveLoops[2][1], CurveLoops[2][3]>> = <<"L0", "L8">>
       /\ <<CurveLoops[3][1], CurveLoops[3][3]>> = <<"L8", "L3">>
       /\ <<CurveLoops[4][1], CurveLoops[4][3]>> = <<"L9", "L4">>
       /\ <<CurveLoops[5][1], CurveLoops[5][3]>> = <<"L7", "L9">>
       /\ <<CurveLoops[1][2], CurveLoops[1][4]>>
             = <<"spline_front", "circle_arc">>
       /\ <<CurveLoops[2][2], CurveLoops[2][4]>>
             = <<"L1", "upper_spline_back">>
       /\ <<CurveLoops[3][2], CurveLoops[3][4]>> = <<"L2", "L10">>
       /\ <<CurveLoops[4][2], CurveLoops[4][4]>> = <<"L10", "L5">>
       /\ <<CurveLoops[5][2], CurveLoops[5][4]>>
             = <<"lower_spline_back", "L6">>

\* C18 witness: a built topology whose four kinds of count all differ:
\* 5 nodes on the vertical lines, 6 on the nose, 36 along the airfoil and
\* 33 in the wake.
C18_Witness ==
    /\ structural
    /\ ext_domain.built
    /\ pc = "done"
    /\ CountsOf("L7") = {5}
    /\ CountsOf("circle_arc") = {6}
    /\ CountsOf("L6") = {36}
    /\ CountsOf("L10") = {33}

\* The requests that create geometry: points, lines, splines, arcs, curve
\* loops and surfaces.
GeometryCreating ==
    {"addPoint", "addLine", "addSpline", "addCircleArc", "addCurveLoop",
     "addPlaneSurface"}

\* C19 (as claimed): in a structured run no geometry-creating request is
\* issued after the first curve-splitting request, nor after the first
\* transfinite constraint.
C19_GeometryBeforeSplitAndTransfinite ==
    (entry = "main" /\ structural)
    => \A i \in 1..Len(kernel) :
          kernel[i] \in {"splitCurve", "setTransfiniteCurve"}
          => \A j \in (i + 1)..Len(kernel) :
                kernel[j] \notin GeometryCreating

\* The positions of a point list whose x exceeds the threshold.
PastNose(list) == {i \in 1..Len(list) : RGt(list[i].x, NoseThreshold)}

\* The upper surface walked away from the leading edge, and the lower one.
UpperFromLe == upper_spline.point_list
LowerFromLe == Reverse(lower_spline.point_list)

\* A contour of at least five points, all different, that starts at its
\* only leading-edge point and has its only maximum of x inside.
DistinctProfile ==
    /\ Len(points) >= 5
    /\ Cardinality(Range(CoordsOf(points))) = Len(points)
    /\ le_indx = 0
    /\ \A i \in 2..Len(points) : RLt(points[1].x, points[i].x)
    /\ te_indx \in 2..(Len(points) - 2)
    /\ \A i \in 1..Len(points) :
          i # te_indx + 1 => RLt(points[i].x, points[te_indx + 1].x)

\* C20 (as claimed): on each surface of a profile of distinct points, the
\* split point CType chose is the first point, walking away from the
\* leading edge in contour order, whose x exceeds 0.031.
C20_SplitAtFirstPointPastNose ==
    (structural /\ ext_domain.built /\ DistinctProfile)
    => /\ PastNose(UpperFromLe) # {}
       /\ PastNose(LowerFromLe) # {}
       /\ ext_domain.le_upper_point
             = UpperFromLe[Lowest(PastNose(UpperFromLe))]
       /\ ext_domain.le_lower_point
             = LowerFromLe[Lowest(PastNose(LowerFromLe))]

\* C22: on the runs of main(), the normalised sequence has a point of
\* minimum x at index 0 and the leading-edge lookup of AirfoilSpline gives
\* index 0 for it, so the run is never ended by the numeration check of the
\* constructor (the only exit before the parameters of the domain are
\* read), also with several points of minimum x and after a reversal.
C22_NumerationAbortUnreachable ==
    (entry = "main")
    => /\ pc = "normalized"
          => /\ cloud_points[1][1] = MinX(cloud_points)
             /\ IndexOfMinX(MakePoints(cloud_points, MeshSize, 1)) = 0
       /\ (Constructed /\ Len(cloud_points) > 0)
          => /\ IndexOfMinX(ContourPoints) = 0
             /\ le_indx = 0
       /\ ~(pc = "exited" /\ ~args.read)

\* C22 witness: a constructor that ran on a sequence the normalisation
\* reversed and in which two points tie for the minimum x.
C22_Witness ==
    /\ entry = "main"
    /\ pc = "constructed"
    /\ le_indx = 0
    /\ Cardinality(MinXPositions) >= 2
    /\ Cardinality(Range(provided_cloud)) >= 3
    /\ \E k \in 0..(Len(provided_cloud) - 1) :
          /\ IsReversedRotation(cloud_points, provided_cloud, k)
          /\ ~IsRotation(cloud_points, provided_cloud, k)

\* The number of positions of a sequence that hold the point p.
Occurrences(c, p) == Cardinality({i \in 1..Len(c) : c[i] = p})

\* The unordered pairs of cyclically adjacent points of a sequence.
AdjacentPairs(c) == { {c[i], c[(i % Len(c)) + 1]} : i \in 1..Len(c) }

\* C25: the normalisation of main() only re-indexes the closed polyline.
\* Its output has the length and the multiset of points of its input and is
\* a cyclic rotation of the input or of the reversed input, so cyclically
\* adjacent points stay adjacent; and when the sequence is reversed, the
\* point at index 0 before the reversal is at index 0 after it.
C25_NormalizationReindexes ==
    (entry = "main" /\ pc = "normalized")
    => /\ Len(cloud_points) = Len(provided_cloud)
       /\ \A p \in Range(provided_cloud) \cup Range(cloud_points) :
             Occurrences(cloud_points, p) = Occurrences(provided_cloud, p)
       /\ \E k \in 0..(Len(provided_cloud) - 1) :
             \/ IsRotation(cloud_points, provided_cloud, k)
             \/ IsReversedRotation(cloud_points, provided_cloud, k)
       /\ AdjacentPairs(cloud_points) = AdjacentPairs(provided_cloud)
       /\ NeedsReverse(RotateToDebut(provided_cloud))
             => cloud_points[1] = RotateToDebut(provided_cloud)[1]

\* C25 witness: a cloud of four different points that was rotated to a
\* point other than its first and then reversed.
C25_Witness ==
    /\ entry = "main"
    /\ pc = "normalized"
    /\ Len(provided_cloud) = 4
    /\ Cardinality(Range(provided_cloud)) = 4
    /\ Debut(provided_cloud) # 0
    /\ NeedsReverse(RotateToDebut(provided_cloud))
    /\ cloud_points[1] = provided_cloud[Debut(provided_cloud) + 1]
    /\ cloud_points[2] = At(provided_cloud, Debut(provided_cloud) - 1)

\* The names of self.lines[0] to self.lines[10].
LineNames ==
    <<"L0", "L1", "L2", "L3", "L4", "L5", "L6", "L7", "L8", "L9", "L10">>

\* The start and end point of a curve of the topology, in the direction the
\* kernel holds it: a line, the arc from p7 to p1, the front spline along
\* points_front, and the back parts of the two splines, of which the upper
\* one runs from the split point to the trailing edge and the lower one
\* from the trailing edge to the split point.
CurveEnds(curve) ==
    IF curve = "circle_arc"
    THEN Line(ext_domain.circle_arc.start_point,
              ext_domain.circle_arc.end_point)
    ELSE IF curve = "spline_front"
    THEN Line(ext_domain.points_front[1],
              ext_domain.points_front[Len(ext_domain.points_front)])
    ELSE IF curve = "upper_spline_back"
    THEN Line(ext_domain.le_upper_point,
              upper_spline.point_list[Len(upper_spline.point_list)])
    ELSE IF curve = "lower_spline_back"
    THEN Line(lower_spline.point_list[1], ext_domain.le_lower_point)
    ELSE ext_domain.lines[CHOOSE i \in 1..11 : LineNames[i] = curve]

\* The setTransfiniteCurve call made for a curve.
TransfiniteOf(curve) ==
    ext_domain.transfinite[CHOOSE i \in 1..Len(ext_domain.transfinite) :
                              ext_domain.transfinite[i].curve = curve]

\* The end of a graded curve at which its intervals are smallest: with a
\* progression above 1 the intervals grow from the start of the curve to
\* its end, with one below 1 they shrink.
FineEnd(curve) ==
    IF RLt(<<1, 1>>, TransfiniteOf(curve).coef)
    THEN CurveEnds(curve).start_point
    ELSE IF RLt(TransfiniteOf(curve).coef, <<1, 1>>)
    THEN CurveEnds(curve).end_point
    ELSE NoPoint

\* The pairs of opposite graded sides of the blocks A to E.
GradedOpposites ==
    { <<"L7", "L0">>, <<"L0", "L8">>, <<"L8", "L3">>, <<"L2", "L10">>,
      <<"L9", "L4">>, <<"L10", "L5">>, <<"L7", "L9">> }

\* Two points are the two ends of one curve of the topology.
Joined(p, q) ==
    \E c \in BlockCurves :
        {CurveEnds(c).start_point, CurveEnds(c).end_point} = {p, q}

\* C21: for a ratio above 1 every graded edge has its smallest interval at
\* the end nearer the airfoil: L0, L7, L8 and L9 on the airfoil (the two
\* split points and the trailing edge), L3 and L4 at the wake point p4, and
\* L2, L10 and L5 at the end whose x is that of the trailing edge.  Every
\* graded edge is a "Progression" with a coefficient other than 1, and the
\* fine ends of two opposite graded sides of a block are the ends of one
\* side of that block.
C21_FineEndNearAirfoil ==
    (structural /\ ext_domain.built /\ RLt(<<1, 1>>, args.ratio))
    => /\ FineEnd("L0") = ext_domain.le_upper_point
       /\ FineEnd("L7") = ext_domain.le_lower_point
       /\ FineEnd("L8") = te
       /\ FineEnd("L9") = te
       /\ FineEnd("L3") = ext_domain.points[5]
       /\ FineEnd("L4") = ext_domain.points[5]
       /\ FineEnd("L2") = ext_domain.points[3]
       /\ FineEnd("L10") = te
       /\ FineEnd("L5") = ext_domain.points[7]
       /\ ext_domain.points[3].x = te.x
       /\ ext_domain.points[7].x = te.x
       /\ ext_domain.points[5].y = te.y
       /\ \A c \in {"L0", "L7", "L8", "L9", "L3", "L4", "L2", "L10", "L5"} :
             /\ TransfiniteOf(c).type = "Progression"
             /\ TransfiniteOf(c).coef # <<1, 1>>
       /\ \A pair \in GradedOpposites :
             \/ FineEnd(pair[1]) = FineEnd(pair[2])
             \/ Joined(FineEnd(pair[1]), FineEnd(pair[2]))

\* C21 witness: a finished structured run with ratio 3/2 whose two split
\* points and trailing edge are three different points, L7 being fine at
\* the lower split point and L0 at the upper one.
C21_Witness ==
    /\ structural
    /\ ext_domain.built
    /\ pc = "done"
    /\ args.ratio = Rat(3, 2)
    /\ ext_domain.le_upper_point # ext_domain.le_lower_point
    /\ ext_domain.le_upper_point # te
    /\ ext_domain.le_lower_point # te
    /\ FineEnd("L7") = ext_domain.le_lower_point
    /\ FineEnd("L0") = ext_domain.le_upper_point
    /\ TransfiniteOf("L7").coef = Rat(2, 3)

\* A curve as a curve loop traverses it: as held by the kernel for a
\* positive tag, from its end to its start for a negated tag.
Traversed(curve, sign) ==
    IF sign = 1
    THEN CurveEnds(curve)
    ELSE Line(CurveEnds(curve).end_point, CurveEnds(curve).start_point)

\* The curves of the i-th curve loop, each in the direction of traversal.
LoopChain(i) ==
    [j \in 1..Len(CurveLoops[i]) |->
        Traversed(CurveLoops[i][j], LoopSigns[i][j])]

\* C23: each of the five curve loops A to E is a closed chain of exactly
\* four curves: taking a curve listed with a negated tag from its end to
\* its start, the end point of every curve of a loop is the start point of
\* the next one, and the end point of the fourth is the start point of the
\* first.
C23_LoopsAreClosedChains ==
    (structural /\ ext_domain.built)
    => /\ Len(CurveLoops) = 5
       /\ \A i \in 1..5 :
             /\ Len(CurveLoops[i]) = 4
             /\ Len(LoopSigns[i]) = 4
             /\ \A j \in 1..4 :
                   LoopChain(i)[j].end_point
                       = LoopChain(i)[(j % 4) + 1].start_point

\* C23 witness: a finished structured run on a profile of distinct points
\* whose two split points and trailing edge are three different points and
\* whose front spline has at least three points, loop A running from p7 over the lower split point
\* and the upper split point to p1 and back along the arc.
C23_Witness ==
    /\ structural
    /\ ext_domain.built
    /\ pc = "done"
    /\ DistinctProfile
    /\ ext_domain.le_upper_point # ext_domain.le_lower_point
    /\ ext_domain.le_upper_point # te
    /\ ext_domain.le_lower_point # te
    /\ Len(ext_domain.points_front) >= 3
    /\ LoopChain(1)[1] = Line(ext_domain.points[8], ext_domain.le_lower_point)
    /\ LoopChain(1)[2]
           = Line(ext_domain.le_lower_point, ext_domain.le_upper_point)
    /\ LoopChain(1)[4] = Line(ext_domain.points[2], ext_domain.points[8])

\* The node counts CType hands to setTransfiniteCurve.
NodeCounts == { ext_domain.transfinite[i].n :
                    i \in 1..Len(ext_domain.transfinite) }

\* C24 (as claimed): for positive dx_lead, dx_trail, dy, ext_mesh_size and
\* first layer height and a ratio above 1, every node count CType assigns
\* to a transfinite curve (nb_points_y, nb_points_wake, nb_airfoil,
\* nb_airfoil_front) is at least 2, so that every block side has at least
\* one interval.
C24_EveryNodeCountAtLeastTwo ==
    (/\ BuiltFromPositive
     /\ RLt(R0, args.dx_lead)
     /\ RLt(R0, args.dx_trail)
     /\ RLt(R0, args.ext_mesh_size))
    => /\ \A n \in NodeCounts : n >= 2
       /\ \A c \in StructCounts[args] :
             /\ c.nb_points_y >= 2
             /\ c.nb_points_wake >= 2
             /\ c.nb_airfoil >= 2
             /\ \A n \in c.nb_airfoil_front : n >= 2

====
